---- MODULE Spec2Model ----
(***************************************************************************)
(* BotClienty: the Discord API proxy (app/api/discord/[...path]/route.ts)  *)
(* and the Discord markdown renderer (app/client.tsx).                     *)
(*                                                                         *)
(* SpecProxy      one inbound request at a time, every input combination   *)
(* SpecProxyConc  several requests in flight, a few representative inputs  *)
(* SpecParser     parseDiscordMarkdown / parseInlineMarkdown, one loop     *)
(*                iteration per step                                       *)
(* SpecClient     the DiscordClient component from its first render: login, *)
(*                logout, the loads and the requests they leave in flight  *)
(* SpecSession    the component in a session: channels, messages, sending, *)
(*                editing, deleting, reacting, logout                      *)
(* SpecSessionFair  SpecSession with timers that fire                      *)
(***************************************************************************)
EXTENDS Integers, Sequences, FiniteSets, Bags, TLC

\* ------------------------------------------------------------------ bounds
\* request slots of the concurrent proxy specification
MaxInFlight == 2
\* longest inbound query string, in key/value pairs
MaxQuery == 2
\* longest message content of which every string is parsed
MaxLen == 5

\* ------------------------------------------------------------ proxy: data
\* what headers.get() returns for an absent header, and an absent body
Null == "<null>"

Slots == 1..MaxInFlight

Methods == {"GET", "POST", "PUT", "PATCH", "DELETE"}

Authorizations == {Null, "", "Bot t1", "Bot t2"}

Paths == {<<"users", "@me">>, <<"channels", "1", "messages">>}

QueryKeys == {"limit", "before"}
QueryValues == {"1", "2"}
QueryPairs == QueryKeys \X QueryValues
Queries == UNION {[1..n -> QueryPairs] : n \in 0..MaxQuery}

JsonContentType == "application/json"
MultipartContentType == "multipart/form-data; boundary=x"

\* inbound bodies: the bytes on the wire and the Content-Type describing them
\*   {}            as JSON
\*   --x           a multipart body holding only text
\*   --x 0xFF      a multipart body holding a byte of a binary file
InboundBodies ==
  { [bytes |-> <<>>, contentType |-> Null],
    [bytes |-> <<123, 125>>, contentType |-> JsonContentType],
    [bytes |-> <<45, 45, 120>>, contentType |-> MultipartContentType],
    [bytes |-> <<45, 45, 120, 255>>, contentType |-> MultipartContentType] }

\* JSON values are lists of key/value pairs
ErrAuthRequired == << <<"error", "Authorization header required">> >>
ErrInternal == << <<"error", "Internal server error">> >>
JsonUser == << <<"id", "1">> >>
JsonRateLimited == << <<"message", "You are being rate limited.">> >>

\* upstream body texts
TextEmpty == ""
TextHtml == "<html>Bad Gateway</html>"
TextUser == "{\"id\":\"1\"}"
TextUserSpaced == "{ \"id\": \"1\" }"
TextRateLimited == "{\"message\":\"You are being rate limited.\"}"
TextErrAuthRequired == "{\"error\":\"Authorization header required\"}"
TextErrInternal == "{\"error\":\"Internal server error\"}"

UpstreamBodies == {TextEmpty, TextHtml, TextUser, TextUserSpaced, TextRateLimited}
UpstreamStatuses == {200, 201, 204, 400, 429, 502}

\* what fetch() can settle with: a rejection, or a response; a 204 response
\* has no body
NetworkFault == [failed |-> TRUE, status |-> 0, body |-> TextEmpty]
UpstreamOutcomes ==
  {NetworkFault} \cup
  { [failed |-> FALSE, status |-> s, body |-> b] :
      s \in UpstreamStatuses \ {204}, b \in UpstreamBodies } \cup
  { [failed |-> FALSE, status |-> 204, body |-> TextEmpty] }

\* Response.ok
IsOk(status) == status >= 200 /\ status <= 299

\* a parser that never throws: anything but JSON parses to a value
JsonParseNeverThrows(text) ==
  CASE text = TextUser -> [ok |-> TRUE, value |-> JsonUser]
    [] text = TextUserSpaced -> [ok |-> TRUE, value |-> JsonUser]
    [] text = TextRateLimited -> [ok |-> TRUE, value |-> JsonRateLimited]
    [] text = TextErrAuthRequired -> [ok |-> TRUE, value |-> ErrAuthRequired]
    [] text = TextErrInternal -> [ok |-> TRUE, value |-> ErrInternal]
    [] OTHER -> [ok |-> TRUE, value |-> ErrInternal]
\* response.json(): parses the body text, throws on anything but JSON
JsonParse(text) ==
  CASE text = TextUser -> [ok |-> TRUE, value |-> JsonUser]
    [] text = TextUserSpaced -> [ok |-> TRUE, value |-> JsonUser]
    [] text = TextRateLimited -> [ok |-> TRUE, value |-> JsonRateLimited]
    [] text = TextErrAuthRequired -> [ok |-> TRUE, value |-> ErrAuthRequired]
    [] text = TextErrInternal -> [ok |-> TRUE, value |-> ErrInternal]
    [] OTHER -> [ok |-> FALSE, value |-> << >>]

\* JSON.stringify as NextResponse.json applies it: the compact text
JsonStringify(value) ==
  CASE value = JsonUser -> TextUser
    [] value = JsonRateLimited -> TextRateLimited
    [] value = ErrAuthRequired -> TextErrAuthRequired
    [] value = ErrInternal -> TextErrInternal

\* NextResponse.json(data, {status})
NextResponseJson(data, status) == [status |-> status, body |-> JsonStringify(data)]

\* request.text(): UTF-8 decoding; a byte that is no UTF-8 (0xFF) becomes
\* U+FFFD.  The inbound bodies hold ASCII bytes and 0xFF only.
Utf8Decode(bytes) ==
  [k \in 1..Len(bytes) |-> IF bytes[k] < 128 THEN bytes[k] ELSE 65533]

\* fetch() encodes a string body as UTF-8
RECURSIVE Utf8Encode(_)
Utf8Encode(text) ==
  IF text = << >> THEN << >>
  ELSE (IF Head(text) < 128 THEN <<Head(text)>> ELSE <<239, 191, 189>>)
         \o Utf8Encode(Tail(text))


\* ----------------------------------------------------------- proxy: state
VARIABLES
  req,      \* slot -> the inbound request being handled
  pc,       \* slot -> where handleDiscordRequest stands
  calls,    \* slot -> the upstream calls fetch() was asked to make
  outcome,  \* slot -> what the fetch() settled with
  resp,     \* slot -> the response returned to the caller
  logged,   \* slot -> console.error was called
  parsed,   \* slot -> response.json() was called
  content,  \* the string parseDiscordMarkdown is called with
  mpc,      \* where parseDiscordMarkdown stands
  lines,    \* its lines
  i,        \* its block cursor
  result,   \* its result array
  block,    \* the block of the current iteration, until it is pushed
  stack,    \* the running parseInlineMarkdown calls, innermost last
  localStorage,      \* the value under 'discord-bot-token'
  authToken,         \* DiscordClient state, client.tsx:1320-1341
  botUser,
  authError,
  isAuthenticating,
  guilds,
  selectedGuildId,
  channels,
  roles,
  dmChannels,
  selectedChannelId,
  messages,
  messageInput,
  isLoading,
  mounted,           \* the component has rendered once
  effectDeps,        \* the dependencies the effects last ran with
  inflight,          \* the requests awaited, with what their caller closed over
  timers,            \* the callbacks given to setTimeout, oldest first
  reacted,           \* upstream: channel -> the bot has reacted to its message
  fired              \* how many of the timers have run

pvars == <<req, pc, calls, outcome, resp, logged, parsed>>
mdvars == <<content, mpc, lines, i, result, block, stack>>
cvars == <<localStorage, authToken, botUser, authError, isAuthenticating,
           guilds, selectedGuildId, channels, roles, dmChannels,
           selectedChannelId, messages, messageInput, isLoading, mounted,
           effectDeps, inflight, timers, reacted, fired>>

NoBody == [present |-> FALSE, bytes |-> << >>]
NoRequest ==
  [method |-> "GET", path |-> << >>, query |-> << >>, authorization |-> Null,
   body |-> [bytes |-> << >>, contentType |-> Null], readOk |-> TRUE]
NoResponse == [status |-> 0, body |-> Null]
NoOutcome == [failed |-> FALSE, status |-> 0, body |-> TextEmpty]

\* method !== 'GET' && method !== 'HEAD' && method !== 'DELETE'
ReadsBody(method) == method # "GET" /\ method # "HEAD" /\ method # "DELETE"

\* every inbound request: a body read can fail only where the body is read
AllRequests ==
  { q \in [method : Methods, path : Paths, query : Queries,
           authorization : Authorizations, body : InboundBodies,
           readOk : BOOLEAN] : ReadsBody(q.method) \/ q.readOk }

\* the requests and upstream answers of the concurrent specification
SampleRequests ==
  { [method |-> "GET", path |-> <<"users", "@me">>, query |-> << >>,
     authorization |-> Null,
     body |-> [bytes |-> << >>, contentType |-> Null], readOk |-> TRUE],
    [method |-> "GET", path |-> <<"users", "@me">>, query |-> << >>,
     authorization |-> "",
     body |-> [bytes |-> << >>, contentType |-> Null], readOk |-> TRUE],
    [method |-> "GET", path |-> <<"channels", "1", "messages">>,
     query |-> << <<"limit", "1">> >>, authorization |-> "Bot t1",
     body |-> [bytes |-> << >>, contentType |-> Null], readOk |-> TRUE],
    [method |-> "POST", path |-> <<"channels", "1", "messages">>,
     query |-> << >>, authorization |-> "Bot t2",
     body |-> [bytes |-> <<123, 125>>, contentType |-> JsonContentType],
     readOk |-> TRUE],
    [method |-> "POST", path |-> <<"channels", "1", "messages">>,
     query |-> << >>, authorization |-> "Bot t1",
     body |-> [bytes |-> <<123, 125>>, contentType |-> JsonContentType],
     readOk |-> FALSE],
    [method |-> "DELETE", path |-> <<"channels", "1", "messages">>,
     query |-> << >>, authorization |-> "Bot t1",
     body |-> [bytes |-> << >>, contentType |-> Null], readOk |-> TRUE] }

SampleOutcomes ==
  { NetworkFault,
    [failed |-> FALSE, status |-> 200, body |-> TextUser],
    [failed |-> FALSE, status |-> 204, body |-> TextEmpty],
    [failed |-> FALSE, status |-> 429, body |-> TextRateLimited] }

\* ------------------------------------------------- proxy: the handler
\* !authorization: null and the empty string are both falsy
AuthMissingNever(authorization) == FALSE
AuthMissing(authorization) == authorization = Null \/ authorization = ""

\* url.searchParams.append(key, value)
SetParam(params, pair) ==
  IF \E k \in 1..Len(params) : params[k][1] = pair[1]
  THEN [k \in 1..Len(params) |->
          IF params[k][1] = pair[1] THEN pair ELSE params[k]]
  ELSE Append(params, pair)
AppendParam(params, pair) == Append(params, pair)

\* searchParams.forEach((value, key) => url.searchParams.append(key, value))
RECURSIVE ForEachParam(_, _)
ForEachParam(searchParams, urlParams) ==
  IF searchParams = << >> THEN urlParams
  ELSE ForEachParam(Tail(searchParams), AppendParam(urlParams, Head(searchParams)))

\* the query of the upstream URL
UpstreamQuery(method, query) ==
  IF method = "GET" THEN ForEachParam(query, << >>) ELSE << >>

\* 'Authorization': authorization
SharedAuthorization(r) ==
  LET live == {s \in Slots : pc[s] # "idle" /\ ~AuthMissing(req[s].authorization)}
  IN  req[CHOOSE s \in live : \A t \in live : s <= t].authorization
UpstreamAuthorization(r) == req[r].authorization

\* if (body) options.body = body
OptionsBody(text) ==
  IF text # << >> THEN [present |-> TRUE, bytes |-> Utf8Encode(text)] ELSE NoBody

\* fetch(url.toString(), options)
UpstreamCall(r, body) ==
  [method |-> req[r].method,
   path |-> req[r].path,
   query |-> UpstreamQuery(req[r].method, req[r].query),
   authorization |-> UpstreamAuthorization(r),
   contentType |-> JsonContentType,
   body |-> body]

FetchTwice(made, call) == Append(Append(made, call), call)
IssueFetch(made, call) == Append(made, call)

\* response.status === 204
IsResetContent(status) == status = 205
IsNoContent(status) == status = 204

\* NextResponse.json(data, { status: response.status })
ErrorAsInternal(data, status) == NextResponseJson(ErrInternal, 500)
ErrorStatusResponse(data, status) == NextResponseJson(data, status)

\* NextResponse.json(data)
SuccessResponse(data, status) == NextResponseJson(data, 200)

\* console.error('Discord API proxy error:', error)
CatchSilent == FALSE
CatchLogs == TRUE

\* the catch block
Catch(r) ==
  /\ logged' = [logged EXCEPT ![r] = CatchLogs]
  /\ resp' = [resp EXCEPT ![r] = NextResponseJson(ErrInternal, 500)]
  /\ pc' = [pc EXCEPT ![r] = "done"]

\* a request reaches the route handler
Arrive(r, requests) ==
  /\ pc[r] = "idle"
  /\ \E q \in requests : req' = [req EXCEPT ![r] = q]
  /\ pc' = [pc EXCEPT ![r] = "start"]
  /\ UNCHANGED <<calls, outcome, resp, logged, parsed>>
  /\ UNCHANGED <<mdvars, cvars>>

\* the handler has returned: its locals are gone, the slot takes the next request
Release(r) ==
  /\ pc[r] = "done"
  /\ req' = [req EXCEPT ![r] = NoRequest]
  /\ pc' = [pc EXCEPT ![r] = "idle"]
  /\ calls' = [calls EXCEPT ![r] = << >>]
  /\ outcome' = [outcome EXCEPT ![r] = NoOutcome]
  /\ resp' = [resp EXCEPT ![r] = NoResponse]
  /\ logged' = [logged EXCEPT ![r] = FALSE]
  /\ parsed' = [parsed EXCEPT ![r] = FALSE]
  /\ UNCHANGED <<mdvars, cvars>>

\* from the entry to the first await
Authorize(r) ==
  /\ pc[r] = "start"
  /\ IF AuthMissing(req[r].authorization)
     THEN /\ resp' = [resp EXCEPT ![r] = NextResponseJson(ErrAuthRequired, 401)]
          /\ pc' = [pc EXCEPT ![r] = "done"]
          /\ UNCHANGED calls
     ELSE IF ReadsBody(req[r].method)
     THEN /\ pc' = [pc EXCEPT ![r] = "readBody"]
          /\ UNCHANGED <<resp, calls>>
     ELSE /\ calls' = [calls EXCEPT ![r] = IssueFetch(calls[r], UpstreamCall(r, NoBody))]
          /\ pc' = [pc EXCEPT ![r] = "fetching"]
          /\ UNCHANGED resp
  /\ UNCHANGED <<req, outcome, logged, parsed>>
  /\ UNCHANGED <<mdvars, cvars>>

\* await request.text() settles; then the fetch is issued
ReadBody(r) ==
  /\ pc[r] = "readBody"
  /\ IF req[r].readOk
     THEN /\ calls' = [calls EXCEPT ![r] =
                IssueFetch(calls[r],
                           UpstreamCall(r, OptionsBody(Utf8Decode(req[r].body.bytes))))]
          /\ pc' = [pc EXCEPT ![r] = "fetching"]
          /\ UNCHANGED <<resp, logged>>
     ELSE /\ Catch(r)
          /\ UNCHANGED calls
  /\ UNCHANGED <<req, outcome, parsed>>
  /\ UNCHANGED <<mdvars, cvars>>

\* the upstream call settles
UpstreamRespond(r, outcomes) ==
  /\ pc[r] = "fetching"
  /\ \E o \in outcomes : outcome' = [outcome EXCEPT ![r] = o]
  /\ pc' = [pc EXCEPT ![r] = "replied"]
  /\ UNCHANGED <<req, calls, resp, logged, parsed>>
  /\ UNCHANGED <<mdvars, cvars>>

\* from the return of fetch() to the return of the handler
Finish(r) ==
  /\ pc[r] = "replied"
  /\ LET o == outcome[r]
         p == JsonParse(o.body)
     IN  IF o.failed
         THEN Catch(r) /\ UNCHANGED parsed
         ELSE IF IsNoContent(o.status)
         THEN /\ resp' = [resp EXCEPT ![r] = [status |-> 204, body |-> Null]]
              /\ pc' = [pc EXCEPT ![r] = "done"]
              /\ UNCHANGED <<logged, parsed>>
         ELSE /\ parsed' = [parsed EXCEPT ![r] = TRUE]
              /\ IF ~p.ok
                 THEN Catch(r)
                 ELSE /\ resp' = [resp EXCEPT ![r] =
                            IF ~IsOk(o.status)
                            THEN ErrorStatusResponse(p.value, o.status)
                            ELSE SuccessResponse(p.value, o.status)]
                      /\ pc' = [pc EXCEPT ![r] = "done"]
                      /\ UNCHANGED logged
  /\ UNCHANGED <<req, calls, outcome>>
  /\ UNCHANGED <<mdvars, cvars>>

\* ------------------------------------------------ markdown: strings
\* a string is the sequence of its characters
Drop(str, n) == SubSeq(str, n + 1, Len(str))
Take(str, n) == SubSeq(str, 1, n)
StartsWith(str, prefix) ==
  Len(str) >= Len(prefix) /\ Take(str, Len(prefix)) = prefix

\* the character U+0060, which a TLA+ string cannot hold
Backtick == "backtick"

\* the character classes of the regular expressions
Digits == {"0", "1", "2", "3", "4", "5", "6", "7", "8", "9"}
Letters ==
  {"a", "b", "c", "d", "e", "f", "g", "h", "i", "j", "k", "l", "m",
   "n", "o", "p", "q", "r", "s", "t", "u", "v", "w", "x", "y", "z",
   "A", "B", "C", "D", "E", "F", "G", "H", "I", "J", "K", "L", "M",
   "N", "O", "P", "Q", "R", "S", "T", "U", "V", "W", "X", "Y", "Z"}
\* \w
WordChars == Letters \cup Digits \cup {"_"}
\* \s, and what trim() strips
Whitespace == {" ", "\t", "\n", "\r", "\f"}
\* the characters . does not match
LineTerminators == {"\n", "\r"}

\* the length of the longest prefix of str made of characters of class
RECURSIVE RunLength(_, _)
RunLength(str, class) ==
  IF str # << >> /\ Head(str) \in class
  THEN 1 + RunLength(Tail(str), class)
  ELSE 0

\* the position of the first character of str that is in class, 0 if none
FirstIn(str, class) ==
  LET found == {k \in 1..Len(str) : str[k] \in class}
  IN  IF found = {} THEN 0 ELSE CHOOSE k \in found : \A j \in found : k <= j

\* String.prototype.trim
TrimStart(str) == Drop(str, RunLength(str, Whitespace))
RECURSIVE TrimEnd(_)
TrimEnd(str) ==
  IF str # << >> /\ str[Len(str)] \in Whitespace
  THEN TrimEnd(Take(str, Len(str) - 1))
  ELSE str
Trim(str) == TrimEnd(TrimStart(str))

\* text.split(/\n+/): empty lines between two lines are not kept
RECURSIVE SplitLinesMerged(_)
SplitLinesMerged(str) ==
  LET nl == FirstIn(str, {"\n"})
      rest == Drop(str, nl + RunLength(Drop(str, nl), {"\n"}))
  IN  IF nl = 0 THEN <<str>>
      ELSE <<Take(str, nl - 1)>> \o SplitLinesMerged(rest)
\* text.split('\n')
RECURSIVE SplitLines(_)
SplitLines(str) ==
  LET nl == FirstIn(str, {"\n"})
  IN  IF nl = 0 THEN <<str>>
      ELSE <<Take(str, nl - 1)>> \o SplitLines(Drop(str, nl))

\* decodeHtmlEntities: one left-to-right pass over the six entities
Entities ==
  { [from |-> <<"&", "a", "m", "p", ";">>, to |-> "&"],
    [from |-> <<"&", "l", "t", ";">>, to |-> "<"],
    [from |-> <<"&", "g", "t", ";">>, to |-> ">"],
    [from |-> <<"&", "q", "u", "o", "t", ";">>, to |-> "\""],
    [from |-> <<"&", "#", "0", "3", "9", ";">>, to |-> "'"],
    [from |-> <<"&", "a", "p", "o", "s", ";">>, to |-> "'"] }

RECURSIVE decodeHtmlEntities(_)
decodeHtmlEntities(text) ==
  IF text = << >> THEN << >>
  ELSE LET at == {e \in Entities : StartsWith(text, e.from)}
       IN  IF at = {}
           THEN <<Head(text)>> \o decodeHtmlEntities(Tail(text))
           ELSE LET e == CHOOSE e \in at : TRUE
                IN  <<e.to>> \o decodeHtmlEntities(Drop(text, Len(e.from)))

\* ------------------------------------------- markdown: inline patterns
NoMatch == [ok |-> FALSE, len |-> 0]

\* ^open(.+?)close: the captured text ends before the first close
DelimitedAnyInner(remaining, open, close, excluded) ==
  LET n == Len(open)
      ends == {k \in (n + 2)..(Len(remaining) - Len(close) + 1) :
                 SubSeq(remaining, k, k + Len(close) - 1) = close}
      k == CHOOSE k \in ends : \A j \in ends : k <= j
  IN  IF StartsWith(remaining, open) /\ ends # {}
      THEN [ok |-> TRUE, len |-> k - 1 + Len(close),
            inner |-> SubSeq(remaining, n + 1, k - 1)]
      ELSE [ok |-> FALSE, len |-> 0, inner |-> << >>]

\* ^open([^excluded]+?)close, where excluded holds the characters of close:
\* the captured text ends at the first excluded character
Delimited(remaining, open, close, excluded) ==
  LET n == Len(open)
      k == n + FirstIn(Drop(remaining, n), excluded)
  IN  IF /\ StartsWith(remaining, open)
         /\ k >= n + 2
         /\ StartsWith(Drop(remaining, k - 1), close)
      THEN [ok |-> TRUE, len |-> k - 1 + Len(close),
            inner |-> SubSeq(remaining, n + 1, k - 1)]
      ELSE [ok |-> FALSE, len |-> 0, inner |-> << >>]

\* /^<(a?):(\w+):(\d+)>/
emojiMatch(remaining) ==
  LET a == IF StartsWith(remaining, <<"<", "a">>) THEN 1 ELSE 0
      afterColon == Drop(remaining, a + 2)
      w == RunLength(afterColon, WordChars)
      afterName == Drop(afterColon, w + 1)
      d == RunLength(afterName, Digits)
  IN  IF /\ StartsWith(remaining, <<"<">>)
         /\ StartsWith(Drop(remaining, a + 1), <<":">>)
         /\ w >= 1
         /\ StartsWith(Drop(afterColon, w), <<":">>)
         /\ d >= 1
         /\ StartsWith(Drop(afterName, d), <<">">>)
      THEN [ok |-> TRUE, len |-> a + 2 + w + 1 + d + 1,
            animated |-> (a = 1), name |-> Take(afterColon, w),
            id |-> Take(afterName, d)]
      ELSE [ok |-> FALSE, len |-> 0, animated |-> FALSE, name |-> << >>, id |-> << >>]

\* /^\*\*([^*]+?)\*\*/
boldMatch(remaining) == Delimited(remaining, <<"*", "*">>, <<"*", "*">>, {"*"})

\* /^__([^_]+?)__/
underlineMatch(remaining) == Delimited(remaining, <<"_", "_">>, <<"_", "_">>, {"_"})

\* /^(\*|_)([^*_]+?)(\*|_)/
italicMatchEitherClose(remaining) ==
  IF remaining # << >> /\ Head(remaining) \in {"*", "_"}
  THEN LET star == Delimited(remaining, <<Head(remaining)>>, <<"*">>, {"*", "_"})
       IN  IF star.ok THEN star
           ELSE Delimited(remaining, <<Head(remaining)>>, <<"_">>, {"*", "_"})
  ELSE [ok |-> FALSE, len |-> 0, inner |-> << >>]
\* /^(\*|_)([^*_]+?)\1/
italicMatch(remaining) ==
  IF remaining # << >> /\ Head(remaining) \in {"*", "_"}
  THEN Delimited(remaining, <<Head(remaining)>>, <<Head(remaining)>>, {"*", "_"})
  ELSE [ok |-> FALSE, len |-> 0, inner |-> << >>]

\* /^~~([^~]+?)~~/
strikethroughMatch(remaining) == Delimited(remaining, <<"~", "~">>, <<"~", "~">>, {"~"})

\* /^`([^`]+?)`/
codeMatch(remaining) == Delimited(remaining, <<Backtick>>, <<Backtick>>, {Backtick})

\* /^\|\|([^|]+?)\|\|/
spoilerMatch(remaining) == Delimited(remaining, <<"|", "|">>, <<"|", "|">>, {"|"})

\* ^(prefix\d+>): the id is the whole token
MentionMatchWholeToken(remaining, prefix) ==
  LET after == Drop(remaining, Len(prefix))
      d == RunLength(after, Digits)
  IN  IF StartsWith(remaining, prefix) /\ d >= 1 /\ StartsWith(Drop(after, d), <<">">>)
      THEN [ok |-> TRUE, len |-> Len(prefix) + d + 1,
            id |-> Take(remaining, Len(prefix) + d + 1)]
      ELSE [ok |-> FALSE, len |-> 0, id |-> << >>]
\* ^prefix(\d+)>
MentionMatch(remaining, prefix) ==
  LET after == Drop(remaining, Len(prefix))
      d == RunLength(after, Digits)
  IN  IF StartsWith(remaining, prefix) /\ d >= 1 /\ StartsWith(Drop(after, d), <<">">>)
      THEN [ok |-> TRUE, len |-> Len(prefix) + d + 1, id |-> Take(after, d)]
      ELSE [ok |-> FALSE, len |-> 0, id |-> << >>]

\* /^<@[!&]?(\d+)>/
userMentionAnyFlag(remaining) ==
  IF StartsWith(remaining, <<"<", "@", "!">>) \/ StartsWith(remaining, <<"<", "@", "&">>)
  THEN MentionMatch(remaining, Take(remaining, 3))
  ELSE MentionMatch(remaining, <<"<", "@">>)
\* /^<@!?(\d+)>/
userMention(remaining) ==
  IF StartsWith(remaining, <<"<", "@", "!">>)
  THEN MentionMatch(remaining, <<"<", "@", "!">>)
  ELSE MentionMatch(remaining, <<"<", "@">>)

\* /^<@&(\d+)>/
roleMention(remaining) == MentionMatch(remaining, <<"<", "@", "&">>)

\* /^<#(\d+)>/
channelMention(remaining) == MentionMatch(remaining, <<"<", "#">>)

\* /^\[([^\]]+)\]\(([^)]+)\)/
linkMatch(remaining) ==
  LET afterOpen == Drop(remaining, 1)
      l == IF FirstIn(afterOpen, {"]"}) = 0 THEN 0 ELSE FirstIn(afterOpen, {"]"}) - 1
      afterLabel == Drop(afterOpen, l)
      afterParen == Drop(afterLabel, 2)
      u == IF FirstIn(afterParen, {")"}) = 0 THEN 0 ELSE FirstIn(afterParen, {")"}) - 1
  IN  IF /\ StartsWith(remaining, <<"[">>)
         /\ l >= 1
         /\ StartsWith(afterLabel, <<"]", "(">>)
         /\ u >= 1
      THEN [ok |-> TRUE, len |-> 1 + l + 2 + u + 1,
            label |-> Take(afterOpen, l), url |-> Take(afterParen, u)]
      ELSE [ok |-> FALSE, len |-> 0, label |-> << >>, url |-> << >>]

\* ------------------------------------------- markdown: block patterns
Fence == <<Backtick, Backtick, Backtick>>

\* line.trim().startsWith('```')
IsFence(line) == StartsWith(Trim(line), Fence)

\* line.trim().slice(3).trim()
FenceLang(line) == Trim(Drop(Trim(line), 3))

\* while (i < lines.length && lines[i] && !lines[i].trim().startsWith('```')) i++
RECURSIVE FenceEndAtEmptyLine(_, _)
FenceEndAtEmptyLine(ls, j) ==
  IF j < Len(ls) /\ ls[j + 1] # << >> /\ ~IsFence(ls[j + 1])
  THEN FenceEndAtEmptyLine(ls, j + 1) ELSE j
\* while (i < lines.length && !lines[i].trim().startsWith('```')) i++
RECURSIVE FenceEnd(_, _)
FenceEnd(ls, j) ==
  IF j < Len(ls) /\ ~IsFence(ls[j + 1]) THEN FenceEnd(ls, j + 1) ELSE j

\* codeContent += (codeContent ? '\n' : '') + lines[i], for lines j .. end-1
RECURSIVE CodeContent(_, _, _, _)
CodeContent(ls, j, end, codeContent) ==
  IF j >= end THEN codeContent
  ELSE CodeContent(ls, j + 1, end,
         codeContent \o (IF codeContent # << >> THEN <<"\n">> ELSE << >>) \o ls[j + 1])

\* \s+(.+)$ at the start of str: \s+ is greedy and gives back what (.+)$ needs
SpaceThenRest(str) ==
  LET m == RunLength(str, Whitespace)
      fits == {k \in 1..m :
                 /\ Drop(str, k) # << >>
                 /\ \A j \in (k + 1)..Len(str) : str[j] \notin LineTerminators}
      k == CHOOSE k \in fits : \A j \in fits : j <= k
  IN  IF fits = {} THEN [ok |-> FALSE, rest |-> << >>]
      ELSE [ok |-> TRUE, rest |-> Drop(str, k)]

\* line.match(/^(#{1,3})\s+(.+)$/)
headerMatch(line) ==
  LET h == RunLength(line, {"#"})
      t == SpaceThenRest(Drop(line, h))
  IN  IF h >= 1 /\ h <= 3 /\ t.ok
      THEN [ok |-> TRUE, level |-> h, title |-> t.rest]
      ELSE [ok |-> FALSE, level |-> 0, title |-> << >>]

\* line.startsWith('>')
IsQuoteNoSpace(line) == StartsWith(line, <<">">>)
\* line.startsWith('> ')
IsQuote(line) == StartsWith(line, <<">", " ">>)

\* the quote takes no further line
QuoteEndAtFirstLine(ls, j) == j
\* while (i < lines.length && lines[i].startsWith('> ')) i++
RECURSIVE QuoteEnd(_, _)
QuoteEnd(ls, j) ==
  IF j < Len(ls) /\ IsQuote(ls[j + 1]) THEN QuoteEnd(ls, j + 1) ELSE j

\* line.match(/^(\s*)([-*]|\d+\.)\s+(.+)$/)
listMatch(line) ==
  LET ws == RunLength(line, Whitespace)
      after == Drop(line, ws)
      d == RunLength(after, Digits)
      marker == IF after # << >> /\ Head(after) \in {"-", "*"} THEN 1
                ELSE IF d >= 1 /\ StartsWith(Drop(after, d), <<".">>) THEN d + 1
                ELSE 0
      t == SpaceThenRest(Drop(after, marker))
  IN  IF marker >= 1 /\ t.ok
      THEN [ok |-> TRUE, indent |-> ws, content |-> t.rest]
      ELSE [ok |-> FALSE, indent |-> 0, content |-> << >>]

\* ------------------------------------------------ markdown: the nodes
\* what parseInlineMarkdown returns: null for the empty string, else the
\* fragment of its segments
InlineNull == [null |-> TRUE, nodes |-> << >>]
InlineFragment(segments) == [null |-> FALSE, nodes |-> segments]

\* bold pushed without parsing its capture
WrappersButBold == {"underline", "italic", "strikethrough", "spoiler"}
\* the kinds whose captured text is parsed by a recursive call
Wrappers == {"bold", "underline", "italic", "strikethrough", "spoiler"}

\* pos += 2: the fallback passes over a character it did not push
TextSkipsOne(pos) == pos + 2
\* pos += 1 of the plain-text fallback
TextStays(pos) == pos
TextAdvance(pos) == pos + 1

\* one iteration of the while loop of parseInlineMarkdown on remaining: the
\* first pattern that matches, the characters it takes and the segment pushed
InlineToken(remaining) ==
  LET emoji == emojiMatch(remaining)
      bold == boldMatch(remaining)
      underline == underlineMatch(remaining)
      italic == italicMatch(remaining)
      strike == strikethroughMatch(remaining)
      code == codeMatch(remaining)
      spoiler == spoilerMatch(remaining)
      user == userMention(remaining)
      role == roleMention(remaining)
      channel == channelMention(remaining)
      link == linkMatch(remaining)
  IN  IF emoji.ok THEN
        [kind |-> "emoji", len |-> emoji.len, inner |-> << >>,
         node |-> [type |-> "emoji", animated |-> emoji.animated,
                   name |-> emoji.name, id |-> emoji.id]]
      ELSE IF bold.ok THEN
        [kind |-> "bold", len |-> bold.len, inner |-> bold.inner,
         node |-> [type |-> "bold"]]
      ELSE IF underline.ok THEN
        [kind |-> "underline", len |-> underline.len, inner |-> underline.inner,
         node |-> [type |-> "underline"]]
      ELSE IF italic.ok THEN
        [kind |-> "italic", len |-> italic.len, inner |-> italic.inner,
         node |-> [type |-> "italic"]]
      ELSE IF strike.ok THEN
        [kind |-> "strikethrough", len |-> strike.len, inner |-> strike.inner,
         node |-> [type |-> "strikethrough"]]
      ELSE IF code.ok THEN
        [kind |-> "code", len |-> code.len, inner |-> << >>,
         node |-> [type |-> "code", value |-> code.inner]]
      ELSE IF spoiler.ok THEN
        [kind |-> "spoiler", len |-> spoiler.len, inner |-> spoiler.inner,
         node |-> [type |-> "spoiler"]]
      ELSE IF user.ok THEN
        [kind |-> "user", len |-> user.len, inner |-> << >>,
         node |-> [type |-> "mention", kind |-> "user", id |-> user.id]]
      ELSE IF role.ok THEN
        [kind |-> "role", len |-> role.len, inner |-> << >>,
         node |-> [type |-> "mention", kind |-> "role", id |-> role.id]]
      ELSE IF channel.ok THEN
        [kind |-> "channel", len |-> channel.len, inner |-> << >>,
         node |-> [type |-> "mention", kind |-> "channel", id |-> channel.id]]
      ELSE IF link.ok THEN
        [kind |-> "link", len |-> link.len, inner |-> << >>,
         node |-> [type |-> "link", label |-> link.label, url |-> link.url]]
      ELSE
        [kind |-> "text", len |-> 1, inner |-> << >>,
         node |-> [type |-> "text", value |-> Head(remaining)]]

\* a call that takes its text as read: pos = text.length
FrameAtEnd(text) ==
  [text |-> text, pos |-> Len(text), segments |-> << >>, wrap |-> "", len |-> 0]

\* a call of parseInlineMarkdown(text): segments = [], pos = 0; wrap and len
\* hold the match whose captured text a recursive call is parsing
Frame(text) ==
  [text |-> text, pos |-> 0, segments |-> << >>, wrap |-> "", len |-> 0]

NoBlock ==
  [type |-> "none", level |-> 0, indent |-> 0, todo |-> << >>, done |-> << >>,
   next |-> 0]

\* the element pushed on result for a block whose texts are parsed
BlockNode(b) ==
  CASE b.type = "heading" ->
         [type |-> "heading", level |-> b.level, children |-> b.done[1]]
    [] b.type = "blockquote" ->
         [type |-> "blockquote", lines |-> b.done]
    [] b.type = "listitem" ->
         [type |-> "listitem", indent |-> b.indent, children |-> b.done[1]]
    [] b.type = "paragraph" ->
         [type |-> "paragraph", children |-> b.done[1]]

\* -------------------------------------------- markdown: the parser
MdReturned == mpc \in {"returned", "returned-null"}

\* parseDiscordMarkdown(c) is called
ParserCall(contents) ==
  /\ mpc = "idle"
  /\ \E c \in contents : content' = c
  /\ mpc' = "start"
  /\ UNCHANGED <<lines, i, result, block, stack>>
  /\ UNCHANGED <<pvars, cvars>>

\* if (!content) return null; decode; split
ParseStart ==
  /\ mpc = "start"
  /\ IF content = << >>
     THEN mpc' = "returned-null" /\ UNCHANGED lines
     ELSE mpc' = "block" /\ lines' = SplitLines(decodeHtmlEntities(content))
  /\ UNCHANGED <<content, i, result, block, stack>>
  /\ UNCHANGED <<pvars, cvars>>

\* the head of an iteration of while (i < lines.length): the line is
\* classified; a code block or a blank line is pushed at once, any other
\* block has its texts parsed first
BlockStep ==
  /\ mpc = "block"
  /\ i < Len(lines)
  /\ LET line == lines[i + 1]
         header == headerMatch(line)
         list == listMatch(line)
         end == FenceEnd(lines, i + 1)
         quoteEnd == QuoteEnd(lines, i + 1)
     IN  IF IsFence(line) THEN
           /\ result' = Append(result,
                [type |-> "codeblock", language |-> FenceLang(line),
                 value |-> CodeContent(lines, i + 1, end, << >>)])
           /\ i' = end + 1
           /\ UNCHANGED <<mpc, block>>
         ELSE IF header.ok THEN
           /\ block' = [type |-> "heading", level |-> header.level, indent |-> 0,
                        todo |-> <<header.title>>, done |-> << >>, next |-> i + 1]
           /\ mpc' = "inline"
           /\ UNCHANGED <<i, result>>
         ELSE IF IsQuote(line) THEN
           /\ block' = [type |-> "blockquote", level |-> 0, indent |-> 0,
                        todo |-> [k \in 1..(quoteEnd - i) |-> Drop(lines[i + k], 2)],
                        done |-> << >>, next |-> quoteEnd]
           /\ mpc' = "inline"
           /\ UNCHANGED <<i, result>>
         ELSE IF list.ok THEN
           /\ block' = [type |-> "listitem", level |-> 0, indent |-> list.indent,
                        todo |-> <<list.content>>, done |-> << >>, next |-> i + 1]
           /\ mpc' = "inline"
           /\ UNCHANGED <<i, result>>
         ELSE IF Trim(line) = << >> THEN
           /\ result' = Append(result, [type |-> "blank"])
           /\ i' = i + 1
           /\ UNCHANGED <<mpc, block>>
         ELSE
           /\ block' = [type |-> "paragraph", level |-> 0, indent |-> 0,
                        todo |-> <<line>>, done |-> << >>, next |-> i + 1]
           /\ mpc' = "inline"
           /\ UNCHANGED <<i, result>>
  /\ UNCHANGED <<content, lines, stack>>
  /\ UNCHANGED <<pvars, cvars>>

\* parseInlineMarkdown(text) is called for the next text of the block:
\* if (!text) return null
InlineCall ==
  /\ mpc = "inline"
  /\ stack = << >>
  /\ block.todo # << >>
  /\ IF Head(block.todo) = << >>
     THEN /\ block' = [block EXCEPT !.todo = Tail(@), !.done = Append(@, InlineNull)]
          /\ UNCHANGED stack
     ELSE /\ block' = [block EXCEPT !.todo = Tail(@)]
          /\ stack' = <<Frame(Head(block.todo))>>
  /\ UNCHANGED <<content, mpc, lines, i, result>>
  /\ UNCHANGED <<pvars, cvars>>

\* an iteration of while (pos < text.length) of the innermost call, up to
\* its recursive call where it makes one
InlineStep ==
  /\ mpc = "inline"
  /\ stack # << >>
  /\ LET top == Len(stack)
         f == stack[top]
         t == InlineToken(Drop(f.text, f.pos))
     IN  /\ f.pos < Len(f.text)
         /\ f.wrap = ""
         /\ IF t.kind \in Wrappers
            THEN stack' = Append([stack EXCEPT ![top].wrap = t.kind, ![top].len = t.len],
                                 Frame(t.inner))
            ELSE stack' = [stack EXCEPT
                             ![top].segments = Append(@, t.node),
                             ![top].pos = IF t.kind = "text" THEN TextAdvance(@)
                                          ELSE @ + t.len]
  /\ UNCHANGED <<content, mpc, lines, i, result, block>>
  /\ UNCHANGED <<pvars, cvars>>

\* the innermost call returns <>{segments}</>: the caller pushes the element
\* wrapping it and advances by the length of its match
InlineReturn ==
  /\ mpc = "inline"
  /\ stack # << >>
  /\ LET top == Len(stack)
         f == stack[top]
     IN  /\ f.pos >= Len(f.text)
         /\ IF top = 1
            THEN /\ block' = [block EXCEPT !.done = Append(@, InlineFragment(f.segments))]
                 /\ stack' = << >>
            ELSE /\ stack' = [SubSeq(stack, 1, top - 1) EXCEPT
                                ![top - 1].segments =
                                   Append(@, [type |-> stack[top - 1].wrap,
                                              children |-> f.segments]),
                                ![top - 1].pos = @ + stack[top - 1].len,
                                ![top - 1].wrap = "",
                                ![top - 1].len = 0]
                 /\ UNCHANGED block
  /\ UNCHANGED <<content, mpc, lines, i, result>>
  /\ UNCHANGED <<pvars, cvars>>

\* result.push(...) of a block whose texts are parsed; the iteration ends
BlockPush ==
  /\ mpc = "inline"
  /\ stack = << >>
  /\ block.todo = << >>
  /\ result' = Append(result, BlockNode(block))
  /\ i' = block.next
  /\ block' = NoBlock
  /\ mpc' = "block"
  /\ UNCHANGED <<content, lines, stack>>
  /\ UNCHANGED <<pvars, cvars>>

\* return <>{result}</>
BlockEnd ==
  /\ mpc = "block"
  /\ i >= Len(lines)
  /\ mpc' = "returned"
  /\ UNCHANGED <<content, lines, i, result, block, stack>>
  /\ UNCHANGED <<pvars, cvars>>

\* ---------------------------------------------- markdown: the inputs
\* every string of at most MaxLen characters of MdAlphabet
MdAlphabet == {"*", Backtick, "a", "\n", " "}
BoundedStrings == UNION {[1..n -> MdAlphabet] : n \in 0..MaxLen}

\* message contents with the other tokens
SampleContents ==
  { <<"*", "*", "b", "o", "l", "d", "*", "*">>,
    <<"*", "*", "a", "*", "b", "*", "*">>,
    <<"_", "_", "u", "_", "_", " ", "_", "i", "_">>,
    <<"~", "~", "s", "~", "~", "|", "|", "*", "x", "*", "|", "|">>,
    <<"a", "&", "l", "t", ";", "b", "&", "a", "m", "p", ";", "l", "t", ";">>,
    <<"<", "@", "1", "2", ">", "<", "@", "!", "3", ">", "<", "@", "&", "5", ">", "<", "#", "7", ">">>,
    <<"<", ":", "o", "k", ":", "9", ">", "<", "a", ":", "o", "k", ":", "9", ">">>,
    <<"[", "a", "]", "(", "u", ")", "[", "a", "]">>,
    <<"#", " ", "*", "h", "*", "\n", "#", "#", "#", "#", " ", "x">>,
    <<"-", " ", "a", "\n", " ", "1", ".", " ", "b", "\n", "*", " ", "c", "*">>,
    <<">", " ", "a", "\n", ">", " ", "\n", ">", " ", "*", "b", "*", "\n", "c">>,
    Fence \o <<"j", "s", "\n", "a", "\n", "\n", "b", "\n">> \o Fence \o <<"\n", "c">>,
    Fence \o <<"\n", "\n", "a", "\n", "*", "b", "*">> }

\* the inverse of split('\n'): the text whose lines are ls
RECURSIVE JoinLines(_)
JoinLines(ls) ==
  IF ls = << >> THEN << >>
  ELSE IF Len(ls) = 1 THEN ls[1]
  ELSE ls[1] \o <<"\n">> \o JoinLines(Tail(ls))

\* message contents that open a code fence: an opening line, at most
\* MaxFenceLines content lines, and the end of the input, a closing fence or
\* a closing fence and one more line
MaxFenceLines == 2
FenceOpenings ==
  { Fence,
    Fence \o <<"j", "s">>,
    Fence \o <<"j", " ", "s">>,
    <<" ">> \o Fence \o <<"j", "s", " ">> }
FenceLines == { << >>, <<"a">>, <<" ">>, <<">", " ", "a">> }
FenceBodies == UNION {[1..n -> FenceLines] : n \in 0..MaxFenceLines}
FenceClosings == { << >>, <<Fence>>, <<Fence \o <<"x">>, <<">", " ", "b">>>> }
FencedContents ==
  { JoinLines(<<o>> \o b \o c) :
      o \in FenceOpenings, b \in FenceBodies, c \in FenceClosings }

\* message contents of the documented examples and their near misses
ExampleContents ==
  { <<"*", "a", "*", " ", "_", "b", "_">>,
    <<"*", "a", "_", " ", "b">>,
    <<"_", "_", "x", "_", "_">>,
    <<"<", "@", "1", "2", "3", ">">>,
    <<"<", "@", "!", "1", "2", "3", ">">>,
    <<"<", "@", "&", "5", ">">>,
    <<"<", "#", "7", ">">>,
    <<"*", "*", "a", "*", "*", " ", "*", "*", "b", "*", "*">>,
    <<"*", "*", "a", "*", "*">>,
    <<"|", "|", "a", "|", "b", "|", "|">>,
    Fence \o <<"j", "s", "\n", "c", "o", "n", "s", "o", "l", "e", ".", "l", "o", "g",
               "(", "1", ")", "\n">> \o Fence,
    <<">", " ", "l", "i", "n", "e", "1", "\n", ">", " ", "l", "i", "n", "e", "2",
      "\n", "p", "l", "a", "i", "n">>,
    <<"#", " ", ">", " ", "a", "\n", ">", "a", "\n", ">", " ", "-", " ", "a", "\n",
      "-", " ", " ", "\n", " ", "\n", "#", "a">> }

\* message contents with a span inside a span
NestedContents ==
  { <<"*", "*", "_", "a", "_", "*", "*">>,
    <<"*", "*", "*", "a", "*", "*", "*">>,
    <<"_", "_", "*", "a", "*", "b", "_", "_">>,
    <<"_", "~", "~", "a", "~", "~", "_">>,
    <<"~", "~", "*", "*", "a", "*", "*", "~", "~">>,
    <<"|", "|", "[", "a", "]", "(", "u", ")", "|", "|">>,
    <<"|", "|", "*", "*", "_", "a", "_", "*", "*", "|", "|">> }

\* ---------------------------------------------------- DiscordClient: bounds
\* requests and timers a user action may add to
MaxPending == 2
\* messages sent in one run
MaxSends == 2

\* ------------------------------------------------------ DiscordClient: data
Tokens == {"t1"}
\* what /users/@me answers: a bot user, a user that is no bot, an error status
AuthOutcomes == {"bot", "notbot", "rejected"}
\* what the upstream answers the list requests with
GuildList == <<"g1">>
ChannelList == <<"c1", "c2">>
RoleList == <<"r1">>
DMChannelList == <<"d1">>
MessageInputs == {"", "hi"}

\* useState<DiscordUser | null>(null); every response is a new object
NoUser == [id |-> Null, ref |-> 0]
NewUser(token) == [id |-> token, ref |-> IF botUser.ref = 1 THEN 2 ELSE 1]

\* the messages of a channel: one message, with one reaction on it
MessagesOf(channel) == <<[channel_id |-> channel, me |-> reacted[channel]]>>

\* throw new Error(data.message || 'Request failed'), new Error('Not a bot token')
ErrorMessage(answer) ==
  IF answer = "notbot" THEN "Not a bot token" ELSE "Request failed"

\* an awaited authedFetch and the values its caller closed over
Request(kind, token, guild, channel, me) ==
  [kind |-> kind, token |-> token, guild |-> guild, channel |-> channel,
   me |-> me]

authenticate(token) == Request("authenticate", token, Null, Null, FALSE)
handleLogin(token) == Request("handleLogin", token, Null, Null, FALSE)
loadGuilds(token, guild) == Request("loadGuilds", token, guild, Null, FALSE)
loadDMChannels(token) == Request("loadDMChannels", token, Null, Null, FALSE)
loadGuildData(token, guild, channel) ==
  Request("loadGuildData", token, guild, channel, FALSE)
loadMessages(token, channel) ==
  Request("loadMessages", token, Null, channel, FALSE)
handleSendMessage(token, channel) ==
  Request("handleSendMessage", token, Null, channel, FALSE)
handleEditMessage(token, channel) ==
  Request("handleEditMessage", token, Null, channel, FALSE)
handleDeleteMessage(token, channel) ==
  Request("handleDeleteMessage", token, Null, channel, FALSE)
\* me: reaction.me of the reaction clicked on; the handler is not given it
handleAddReaction(token, channel, me) ==
  Request("handleAddReaction", token, Null, channel, me)

\* method: 'PUT' on .../reactions/{emoji}/@me
ReactionMethod(me) == "PUT"
\* the upstream's state of the bot's reaction after the request
UpstreamReaction(method, was) ==
  IF method = "PUT" THEN TRUE ELSE IF method = "DELETE" THEN FALSE ELSE was

Issue(cond, request) == IF cond THEN SetToBag({request}) ELSE EmptyBag
Awaited(kind) == {t \in BagToSet(inflight) : t.kind = kind}
Settle(t) == inflight (-) SetToBag({t})
Pending == BagCardinality(inflight) + Len(timers)

\* the dependency arrays of the effects at 1398-1424
Deps == <<authToken, botUser, selectedGuildId, selectedChannelId>>
\* the last render's effects have run
Committed == mounted /\ Deps = effectDeps
\* if (!authToken || !botUser) return ( login screen )
LoginScreen == authToken = Null \/ botUser = NoUser

authvars == <<localStorage, authToken, botUser, authError, isAuthenticating>>
datavars == <<guilds, channels, roles, dmChannels>>
selvars == <<selectedGuildId, selectedChannelId>>
timervars == <<timers, fired>>

\* ---------------------------------------------------- DiscordClient: effects
\* the first render and its effects: the stored token becomes authToken
Mount ==
  /\ ~mounted
  /\ mounted' = TRUE
  /\ authToken' = IF localStorage # Null THEN localStorage ELSE authToken
  /\ messages' = << >>
  /\ effectDeps' = Deps
  /\ UNCHANGED <<localStorage, botUser, authError, isAuthenticating>>
  /\ UNCHANGED <<datavars, selvars, messageInput, isLoading, inflight,
                 timervars, reacted>>
  /\ UNCHANGED <<pvars, mdvars>>

\* the effects of a render whose dependencies changed, in source order
RunEffects ==
  /\ mounted
  /\ Deps # effectDeps
  /\ LET auth == authToken # effectDeps[1]
         validate == auth /\ authToken # Null
         lists == /\ auth \/ botUser # effectDeps[2]
                  /\ authToken # Null /\ botUser # NoUser
         guild == /\ auth \/ selectedGuildId # effectDeps[3]
                  /\ authToken # Null /\ selectedGuildId # Null
         channel == auth \/ selectedChannelId # effectDeps[4]
         fetch == channel /\ authToken # Null /\ selectedChannelId # Null
     IN  /\ inflight' =
               inflight
                 (+) Issue(validate, authenticate(authToken))
                 (+) Issue(lists, loadGuilds(authToken, selectedGuildId))
                 (+) Issue(lists, loadDMChannels(authToken))
                 (+) Issue(guild, loadGuildData(authToken, selectedGuildId,
                                                selectedChannelId))
                 (+) Issue(fetch, loadMessages(authToken, selectedChannelId))
         /\ isAuthenticating' = (validate \/ isAuthenticating)
         /\ isLoading' = (lists \/ guild \/ fetch \/ isLoading)
         /\ messages' = IF channel /\ ~fetch THEN << >> ELSE messages
  /\ effectDeps' = Deps
  /\ UNCHANGED <<localStorage, authToken, botUser, authError>>
  /\ UNCHANGED <<datavars, selvars, messageInput, mounted, timervars, reacted>>
  /\ UNCHANGED <<pvars, mdvars>>

\* ------------------------------------------------ DiscordClient: validation
\* catch of authenticate
authenticateCatchKeepsStored(message) ==
  /\ authError' = message
  /\ authToken' = Null
  /\ botUser' = NoUser
  /\ localStorage' = localStorage
authenticateCatch(message) ==
  /\ authError' = message
  /\ authToken' = Null
  /\ botUser' = NoUser
  /\ localStorage' = Null

\* catch of handleLogin
handleLoginCatch(message) ==
  /\ authError' = message
  /\ botUser' = NoUser
  /\ authToken' = Null
  /\ localStorage' = Null

\* authenticate after its await
authenticateSettles(t, answer) ==
  /\ Committed
  /\ t \in Awaited("authenticate")
  /\ IF answer = "bot"
     THEN /\ botUser' = NewUser(t.token)
          /\ authError' = Null
          /\ UNCHANGED <<authToken, localStorage>>
     ELSE authenticateCatch(ErrorMessage(answer))
  /\ isAuthenticating' = FALSE
  /\ inflight' = Settle(t)
  /\ UNCHANGED <<datavars, selvars, messages, messageInput, isLoading,
                 mounted, effectDeps, timervars, reacted>>
  /\ UNCHANGED <<pvars, mdvars>>

\* the login form is submitted with tokenInput.trim() = token
HandleLogin(token) ==
  /\ Committed
  /\ LoginScreen
  /\ ~isAuthenticating
  /\ Pending < MaxPending
  /\ isAuthenticating' = TRUE
  /\ inflight' = inflight (+) SetToBag({handleLogin(token)})
  /\ UNCHANGED <<localStorage, authToken, botUser, authError>>
  /\ UNCHANGED <<datavars, selvars, messages, messageInput, isLoading,
                 mounted, effectDeps, timervars, reacted>>
  /\ UNCHANGED <<pvars, mdvars>>

\* handleLogin after its await
handleLoginSettles(t, answer) ==
  /\ Committed
  /\ t \in Awaited("handleLogin")
  /\ IF answer = "bot"
     THEN /\ botUser' = NewUser(t.token)
          /\ authToken' = t.token
          /\ localStorage' = t.token
          /\ authError' = Null
     ELSE handleLoginCatch(ErrorMessage(answer))
  /\ isAuthenticating' = FALSE
  /\ inflight' = Settle(t)
  /\ UNCHANGED <<datavars, selvars, messages, messageInput, isLoading,
                 mounted, effectDeps, timervars, reacted>>
  /\ UNCHANGED <<pvars, mdvars>>

HandleLogout ==
  /\ Committed
  /\ ~LoginScreen
  /\ authToken' = Null
  /\ botUser' = NoUser
  /\ guilds' = << >>
  /\ channels' = << >>
  /\ messages' = << >>
  /\ selectedGuildId' = Null
  /\ selectedChannelId' = Null
  /\ localStorage' = Null
  /\ UNCHANGED <<authError, isAuthenticating, roles, dmChannels, messageInput,
                 isLoading, mounted, effectDeps, inflight, timervars, reacted>>
  /\ UNCHANGED <<pvars, mdvars>>

\* ----------------------------------------------------- DiscordClient: loads
\* loadGuilds after its await
loadGuildsSettles(t, ok) ==
  /\ Committed
  /\ t \in Awaited("loadGuilds")
  /\ IF ok
     THEN /\ guilds' = GuildList
          /\ selectedGuildId' = IF Len(GuildList) > 0 /\ t.guild = Null
                                THEN GuildList[1] ELSE selectedGuildId
     ELSE UNCHANGED <<guilds, selectedGuildId>>
  /\ isLoading' = FALSE
  /\ inflight' = Settle(t)
  /\ UNCHANGED <<authvars, channels, roles, dmChannels, selectedChannelId,
                 messages, messageInput, mounted, effectDeps, timervars,
                 reacted>>
  /\ UNCHANGED <<pvars, mdvars>>

\* loadDMChannels after its await
loadDMChannelsSettles(t, ok) ==
  /\ Committed
  /\ t \in Awaited("loadDMChannels")
  /\ dmChannels' = IF ok THEN DMChannelList ELSE dmChannels
  /\ inflight' = Settle(t)
  /\ UNCHANGED <<authvars, guilds, channels, roles, selvars, messages,
                 messageInput, isLoading, mounted, effectDeps, timervars,
                 reacted>>
  /\ UNCHANGED <<pvars, mdvars>>

\* loadGuildData after its await of both requests
loadGuildDataSettles(t, ok) ==
  /\ Committed
  /\ t \in Awaited("loadGuildData")
  /\ IF ok
     THEN /\ channels' = ChannelList
          /\ roles' = RoleList
          /\ selectedChannelId' =
               IF t.channel = Null
                    \/ ~\E k \in 1..Len(ChannelList) : ChannelList[k] = t.channel
               THEN IF Len(ChannelList) > 0 THEN ChannelList[1] ELSE Null
               ELSE selectedChannelId
     ELSE UNCHANGED <<channels, roles, selectedChannelId>>
  /\ isLoading' = FALSE
  /\ inflight' = Settle(t)
  /\ UNCHANGED <<authvars, guilds, dmChannels, selectedGuildId, messages,
                 messageInput, mounted, effectDeps, timervars, reacted>>
  /\ UNCHANGED <<pvars, mdvars>>

\* loadMessages after its await
loadMessagesSettles(t, ok) ==
  /\ Committed
  /\ t \in Awaited("loadMessages")
  /\ messages' = IF ok THEN MessagesOf(t.channel) ELSE messages
  /\ isLoading' = FALSE
  /\ inflight' = Settle(t)
  /\ UNCHANGED <<authvars, datavars, selvars, messageInput, mounted,
                 effectDeps, timervars, reacted>>
  /\ UNCHANGED <<pvars, mdvars>>

\* a guild of the server list is clicked
SelectGuild(id) ==
  /\ Committed
  /\ ~LoginScreen
  /\ Pending < MaxPending
  /\ \E k \in 1..Len(guilds) : guilds[k] = id
  /\ selectedGuildId' = id
  /\ selectedChannelId' = Null
  /\ messages' = << >>
  /\ UNCHANGED <<authvars, datavars, messageInput, isLoading, mounted,
                 effectDeps, inflight, timervars, reacted>>
  /\ UNCHANGED <<pvars, mdvars>>

\* a channel of the channel list is clicked
SelectChannel(id) ==
  /\ Committed
  /\ ~LoginScreen
  /\ Pending < MaxPending
  /\ \E k \in 1..Len(channels) : channels[k] = id
  /\ selectedChannelId' = id
  /\ UNCHANGED <<authvars, datavars, selectedGuildId, messages, messageInput,
                 isLoading, mounted, effectDeps, inflight, timervars, reacted>>
  /\ UNCHANGED <<pvars, mdvars>>

\* ---------------------------------------------------- DiscordClient: messages
\* the text input changes
SetMessageInput(value) ==
  /\ Committed
  /\ ~LoginScreen
  /\ value # messageInput
  /\ messageInput' = value
  /\ UNCHANGED <<authvars, datavars, selvars, messages, isLoading, mounted,
                 effectDeps, inflight, timervars, reacted>>
  /\ UNCHANGED <<pvars, mdvars>>

\* the synchronous part of loadMessages, called with what its render closed over
loadMessagesCall(token, channel) ==
  IF token = Null \/ channel = Null
  THEN /\ messages' = << >>
       /\ UNCHANGED isLoading
  ELSE /\ isLoading' = TRUE
       /\ UNCHANGED messages

\* the message form is submitted
HandleSendMessage ==
  /\ Committed
  /\ ~LoginScreen
  /\ Pending < MaxPending
  /\ fired + Len(timers) + Cardinality(Awaited("handleSendMessage")) < MaxSends
  /\ authToken # Null /\ selectedChannelId # Null /\ messageInput # ""
  /\ inflight' = inflight
                   (+) SetToBag({handleSendMessage(authToken, selectedChannelId)})
  /\ UNCHANGED <<authvars, datavars, selvars, messages, messageInput,
                 isLoading, mounted, effectDeps, timervars, reacted>>
  /\ UNCHANGED <<pvars, mdvars>>

\* what handleSendMessage does once its request succeeded
handleSendMessageThenNoRefresh(t) ==
  /\ messageInput' = ""
  /\ UNCHANGED timers
handleSendMessageThen(t) ==
  /\ messageInput' = ""
  /\ timers' = Append(timers, loadMessages(t.token, t.channel))

\* handleSendMessage after its await
handleSendMessageSettles(t, ok) ==
  /\ Committed
  /\ t \in Awaited("handleSendMessage")
  /\ IF ok
     THEN handleSendMessageThen(t)
     ELSE UNCHANGED <<messageInput, timers>>
  /\ inflight' = Settle(t)
  /\ UNCHANGED <<authvars, datavars, selvars, messages, isLoading, mounted,
                 effectDeps, fired, reacted>>
  /\ UNCHANGED <<pvars, mdvars>>

\* setTimeout(loadMessages, 300) comes due: the oldest timer runs
TimerFires ==
  /\ timers # << >>
  /\ LET t == Head(timers)
     IN  /\ loadMessagesCall(t.token, t.channel)
         /\ inflight' = inflight
                          (+) Issue(t.token # Null /\ t.channel # Null, t)
  /\ timers' = Tail(timers)
  /\ fired' = fired + 1
  /\ UNCHANGED <<authvars, datavars, selvars, messageInput, mounted,
                 effectDeps, reacted>>
  /\ UNCHANGED <<pvars, mdvars>>

\* a message that is shown is edited
HandleEditMessage ==
  /\ Committed
  /\ ~LoginScreen
  /\ Pending < MaxPending
  /\ messages # << >>
  /\ authToken # Null /\ selectedChannelId # Null
  /\ inflight' = inflight
                   (+) SetToBag({handleEditMessage(authToken, selectedChannelId)})
  /\ UNCHANGED <<authvars, datavars, selvars, messages, messageInput,
                 isLoading, mounted, effectDeps, timervars, reacted>>
  /\ UNCHANGED <<pvars, mdvars>>

\* a message that is shown is deleted
HandleDeleteMessage ==
  /\ Committed
  /\ ~LoginScreen
  /\ Pending < MaxPending
  /\ messages # << >>
  /\ authToken # Null /\ selectedChannelId # Null
  /\ inflight' = inflight
                   (+) SetToBag({handleDeleteMessage(authToken, selectedChannelId)})
  /\ UNCHANGED <<authvars, datavars, selvars, messages, messageInput,
                 isLoading, mounted, effectDeps, timervars, reacted>>
  /\ UNCHANGED <<pvars, mdvars>>

\* the reaction of a message that is shown is clicked
HandleAddReaction ==
  /\ Committed
  /\ ~LoginScreen
  /\ Pending < MaxPending
  /\ messages # << >>
  /\ authToken # Null /\ selectedChannelId # Null
  /\ inflight' = inflight
                   (+) SetToBag({handleAddReaction(authToken, selectedChannelId,
                                                   messages[1].me)})
  /\ UNCHANGED <<authvars, datavars, selvars, messages, messageInput,
                 isLoading, mounted, effectDeps, timervars, reacted>>
  /\ UNCHANGED <<pvars, mdvars>>

\* handleEditMessage, handleDeleteMessage after their request: loadMessages()
\* of the render the handler was called in
mutationSettles(t, ok) ==
  /\ Committed
  /\ t \in Awaited("handleEditMessage") \cup Awaited("handleDeleteMessage")
  /\ IF ok
     THEN /\ loadMessagesCall(t.token, t.channel)
          /\ inflight' = Settle(t)
                           (+) Issue(t.token # Null /\ t.channel # Null,
                                     loadMessages(t.token, t.channel))
     ELSE /\ inflight' = Settle(t)
          /\ UNCHANGED <<messages, isLoading>>
  /\ UNCHANGED <<authvars, datavars, selvars, messageInput, mounted,
                 effectDeps, timervars, reacted>>
  /\ UNCHANGED <<pvars, mdvars>>

\* handleAddReaction after its await
handleAddReactionSettles(t, ok) ==
  /\ Committed
  /\ t \in Awaited("handleAddReaction")
  /\ IF ok
     THEN /\ reacted' = [reacted EXCEPT ![t.channel] =
                           UpstreamReaction(ReactionMethod(t.me), @)]
          /\ loadMessagesCall(t.token, t.channel)
          /\ inflight' = Settle(t)
                           (+) Issue(t.token # Null /\ t.channel # Null,
                                     loadMessages(t.token, t.channel))
     ELSE /\ inflight' = Settle(t)
          /\ UNCHANGED <<reacted, messages, isLoading>>
  /\ UNCHANGED <<authvars, datavars, selvars, messageInput, mounted,
                 effectDeps, timervars>>
  /\ UNCHANGED <<pvars, mdvars>>

\* the component before its first render
ClientFresh ==
  /\ authToken = Null
  /\ botUser = NoUser
  /\ authError = Null
  /\ isAuthenticating = FALSE
  /\ guilds = << >>
  /\ selectedGuildId = Null
  /\ channels = << >>
  /\ roles = << >>
  /\ dmChannels = << >>
  /\ selectedChannelId = Null
  /\ messages = << >>
  /\ messageInput = ""
  /\ isLoading = FALSE
  /\ mounted = FALSE
  /\ effectDeps = Deps
  /\ inflight = EmptyBag
  /\ timers = << >>
  /\ reacted = [c \in {ChannelList[k] : k \in 1..Len(ChannelList)} |-> FALSE]
  /\ fired = 0

ClientIdle == localStorage = Null /\ ClientFresh

ProxyIdle ==
  /\ req = [r \in Slots |-> NoRequest]
  /\ pc = [r \in Slots |-> "idle"]
  /\ calls = [r \in Slots |-> << >>]
  /\ outcome = [r \in Slots |-> NoOutcome]
  /\ resp = [r \in Slots |-> NoResponse]
  /\ logged = [r \in Slots |-> FALSE]
  /\ parsed = [r \in Slots |-> FALSE]

ParserIdle ==
  /\ content = << >>
  /\ mpc = "idle"
  /\ lines = << >>
  /\ i = 0
  /\ result = << >>
  /\ block = NoBlock
  /\ stack = << >>

ProxyInit == ProxyIdle /\ ParserIdle /\ ClientIdle

ParserInit == ProxyIdle /\ ParserIdle /\ ClientIdle

vars == <<pvars, mdvars, cvars>>

ParserNext ==
  \/ ParserCall(BoundedStrings \cup SampleContents \cup ExampleContents
                  \cup FencedContents \cup NestedContents)
  \/ ParseStart
  \/ BlockStep
  \/ InlineCall
  \/ InlineStep
  \/ InlineReturn
  \/ BlockPush
  \/ BlockEnd

SpecParser == ParserInit /\ [][ParserNext]_vars

\* one request at a time, every input
ProxyNext ==
  \/ Arrive(1, AllRequests)
  \/ Authorize(1)
  \/ ReadBody(1)
  \/ UpstreamRespond(1, UpstreamOutcomes)
  \/ Finish(1)
  \/ Release(1)

SpecProxy == ProxyInit /\ [][ProxyNext]_vars

\* several requests in flight
ProxyConcNext ==
  \E r \in Slots :
    \/ Arrive(r, SampleRequests)
    \/ Authorize(r)
    \/ ReadBody(r)
    \/ UpstreamRespond(r, SampleOutcomes)
    \/ Finish(r)
    \/ Release(r)

SpecProxyConc == ProxyInit /\ [][ProxyConcNext]_vars

\* the browser may hold a token of an earlier visit
ClientInit ==
  /\ ProxyIdle
  /\ ParserIdle
  /\ localStorage \in Tokens \cup {Null}
  /\ ClientFresh

ClientNext ==
  \/ Mount
  \/ RunEffects
  \/ \E token \in Tokens : HandleLogin(token)
  \/ \E t \in BagToSet(inflight), answer \in AuthOutcomes :
       handleLoginSettles(t, answer)
  \/ \E t \in BagToSet(inflight), answer \in AuthOutcomes :
       authenticateSettles(t, answer)
  \/ HandleLogout
  \/ \E t \in BagToSet(inflight), ok \in BOOLEAN : loadGuildsSettles(t, ok)
  \/ \E t \in BagToSet(inflight), ok \in BOOLEAN : loadDMChannelsSettles(t, ok)
  \/ \E t \in BagToSet(inflight), ok \in BOOLEAN : loadGuildDataSettles(t, ok)
  \/ \E t \in BagToSet(inflight), ok \in BOOLEAN : loadMessagesSettles(t, ok)
  \/ \E id \in {GuildList[k] : k \in 1..Len(GuildList)} : SelectGuild(id)
  \/ \E id \in {ChannelList[k] : k \in 1..Len(ChannelList)} : SelectChannel(id)

SpecClient == ClientInit /\ [][ClientNext]_vars

\* a session under way: logged in, the lists loaded, the first channel shown
SessionInit ==
  /\ ProxyIdle
  /\ ParserIdle
  /\ localStorage \in Tokens
  /\ authToken = localStorage
  /\ botUser = [id |-> authToken, ref |-> 1]
  /\ authError = Null
  /\ isAuthenticating = FALSE
  /\ guilds = GuildList
  /\ selectedGuildId = GuildList[1]
  /\ channels = ChannelList
  /\ roles = RoleList
  /\ dmChannels = DMChannelList
  /\ selectedChannelId = ChannelList[1]
  /\ reacted = [c \in {ChannelList[k] : k \in 1..Len(ChannelList)} |-> FALSE]
  /\ messages = MessagesOf(selectedChannelId)
  /\ messageInput = ""
  /\ isLoading = FALSE
  /\ mounted = TRUE
  /\ effectDeps = Deps
  /\ inflight = EmptyBag
  /\ timers = << >>
  /\ fired = 0

SessionNext ==
  \/ RunEffects
  \/ \E id \in {ChannelList[k] : k \in 1..Len(ChannelList)} : SelectChannel(id)
  \/ \E t \in BagToSet(inflight), ok \in BOOLEAN : loadMessagesSettles(t, ok)
  \/ \E value \in MessageInputs : SetMessageInput(value)
  \/ HandleSendMessage
  \/ \E t \in BagToSet(inflight), ok \in BOOLEAN :
       handleSendMessageSettles(t, ok)
  \/ TimerFires
  \/ HandleEditMessage
  \/ HandleDeleteMessage
  \/ HandleAddReaction
  \/ \E t \in BagToSet(inflight), ok \in BOOLEAN : mutationSettles(t, ok)
  \/ \E t \in BagToSet(inflight), ok \in BOOLEAN :
       handleAddReactionSettles(t, ok)
  \/ HandleLogout

SpecSession == SessionInit /\ [][SessionNext]_vars

\* a timer that is due runs
SpecSessionFair == SpecSession /\ WF_vars(TimerFires)

\* ------------------------------------------------------- proxy: claims
Done(r) == pc[r] = "done"
\* the handler of slot r got an upstream response (a rejection is none)
Answered(r) == Done(r) /\ calls[r] # << >> /\ ~outcome[r].failed
\* the JSON value a body text stands for
JsonOf(text) == JsonParse(text).value
IsJson(text) == JsonParse(text).ok

\* C1: a request that carries no Authorization header is answered with status
\* 401 and an error body, whatever its method, and no upstream call is ever
\* made for it.
C1_NoAuthorizationRejected ==
  \A r \in Slots :
    (pc[r] # "idle" /\ req[r].authorization = Null) =>
      /\ calls[r] = << >>
      /\ pc[r] \in {"start", "done"}
      /\ Done(r) => /\ resp[r].status = 401
                    /\ IsJson(resp[r].body)
                    /\ JsonOf(resp[r].body)[1][1] = "error"

C1_Witness ==
  \E r \in Slots :
    /\ Done(r) /\ req[r].authorization = Null /\ req[r].method = "DELETE"
    /\ resp[r].status = 401 /\ calls[r] = << >>

\* C3: the proxy returns the upstream's status and body unchanged, except
\* that a 204 is returned with an empty body and a failed call or a body that
\* is no JSON is returned as 500 with {error}; so any status with a JSON body,
\* 2xx or not, comes back with that status and that body.
C3_MirrorsUpstream ==
  \A r \in Slots :
    (Done(r) /\ calls[r] # << >>) =>
      IF outcome[r].failed \/ (outcome[r].status # 204 /\ ~IsJson(outcome[r].body))
      THEN resp[r].status = 500 /\ JsonOf(resp[r].body)[1][1] = "error"
      ELSE IF outcome[r].status = 204
      THEN resp[r].body = Null
      ELSE /\ resp[r].status = outcome[r].status
           /\ JsonOf(resp[r].body) = JsonOf(outcome[r].body)

\* C4: an upstream answer with a non-2xx status and a JSON body is returned
\* with that status and that JSON body, after a single upstream call.
C4_ErrorStatusPassedThrough ==
  \A r \in Slots :
    (Answered(r) /\ ~IsOk(outcome[r].status) /\ IsJson(outcome[r].body)) =>
      /\ resp[r].status = outcome[r].status
      /\ IsJson(resp[r].body)
      /\ JsonOf(resp[r].body) = JsonOf(outcome[r].body)
      /\ Len(calls[r]) = 1

C4_Witness ==
  \E r \in Slots :
    /\ Answered(r) /\ outcome[r].status = 429 /\ outcome[r].body = TextRateLimited
    /\ resp[r].status = 429 /\ resp[r].body = TextRateLimited

\* C5: when the upstream call fails, or the body of the upstream response is
\* not valid JSON (a 204 carries no body and is not parsed), the response is
\* 500 with the fixed {error} body and the failure has been logged by the
\* time the response is returned.
C5_FailureIs500AndLogged ==
  \A r \in Slots :
    (Done(r) /\ calls[r] # << >> /\
       (outcome[r].failed \/ (outcome[r].status # 204 /\ ~IsJson(outcome[r].body)))) =>
      /\ resp[r] = [status |-> 500, body |-> TextErrInternal]
      /\ JsonOf(resp[r].body) = ErrInternal
      /\ logged[r]

C5_Witness ==
  \E r \in Slots :
    /\ Answered(r) /\ outcome[r].status = 200 /\ outcome[r].body = TextHtml
    /\ resp[r].status = 500 /\ logged[r]

\* C6: an upstream 204 is answered with a success status and no body, and
\* the body of the upstream response is not parsed.
C6_NoContentIsEmptySuccess ==
  \A r \in Slots :
    (Answered(r) /\ outcome[r].status = 204) =>
      /\ IsOk(resp[r].status)
      /\ resp[r].body = Null
      /\ ~parsed[r]
      /\ ~logged[r]

C6_Witness ==
  \E r \in Slots :
    /\ Answered(r) /\ req[r].method = "DELETE" /\ outcome[r].status = 204
    /\ resp[r].status = 204 /\ resp[r].body = Null

\* C7: for POST, PUT, PATCH and DELETE the body sent upstream is the inbound
\* body: the same bytes, described by the same content type.
C7_BodyForwardedUnchanged ==
  \A r \in Slots :
    (calls[r] # << >> /\ req[r].method \in {"POST", "PUT", "PATCH", "DELETE"}) =>
      LET sent == calls[r][1] IN
      /\ sent.body.bytes = req[r].body.bytes
      /\ sent.body.present <=> (req[r].body.bytes # << >>)
      /\ sent.body.present => sent.contentType = req[r].body.contentType

\* C8: the query of the upstream URL of a GET is the inbound query: the same
\* key/value pairs, repeated keys included, in the same order.
C8_QueryPropagated ==
  \A r \in Slots :
    (calls[r] # << >> /\ req[r].method = "GET") =>
      \A k \in 1..Len(calls[r]) : calls[r][k].query = req[r].query

C8_Witness ==
  \E r \in Slots :
    /\ calls[r] # << >> /\ req[r].method = "GET"
    /\ req[r].query = << <<"limit", "1">>, <<"limit", "2">> >>
    /\ calls[r][1].query = << <<"limit", "1">>, <<"limit", "2">> >>

\* C9 as stated: every request causes exactly one upstream call when it
\* carries an Authorization header and none when it does not.
C9_OneCallIffHeaderPresent ==
  \A r \in Slots :
    Done(r) => Len(calls[r]) = (IF req[r].authorization # Null THEN 1 ELSE 0)

\* the handler reached the fetch: the Authorization header is not empty and
\* the inbound body, where the method has one read, was read
ReachesFetch(q) ==
  ~AuthMissing(q.authorization) /\ (ReadsBody(q.method) => q.readOk)

\* C9: every request causes at most one upstream call, also after an error
\* status or a network fault: exactly one when it carries a non-empty
\* Authorization header and its body could be read, none otherwise; the call
\* carries the token of its own request, and a slot that is between requests
\* holds nothing of the request before.
C9_AtMostOneCallNoState ==
  \A r \in Slots :
    /\ Len(calls[r]) <= 1
    /\ Done(r) => Len(calls[r]) = (IF ReachesFetch(req[r]) THEN 1 ELSE 0)
    /\ \A k \in 1..Len(calls[r]) : calls[r][k].authorization = req[r].authorization
    /\ pc[r] = "idle" =>
         /\ req[r] = NoRequest /\ calls[r] = << >> /\ outcome[r] = NoOutcome
         /\ resp[r] = NoResponse /\ ~logged[r] /\ ~parsed[r]

C9_Witness ==
  \E r \in Slots :
    /\ Done(r) /\ outcome[r] = NetworkFault /\ Len(calls[r]) = 1
    /\ resp[r].status = 500
    /\ \E s \in Slots \ {r} : Done(s) /\ outcome[s].status = 429 /\ Len(calls[s]) = 1

\* C10: under every interleaving, the upstream call of a request is built
\* from its own method, path, query and token, and two requests that are
\* equal and got equal upstream answers stand at equal results, whatever
\* else is in flight.
C10_RequestsIndependent ==
  /\ \A r \in Slots : \A k \in 1..Len(calls[r]) :
        /\ calls[r][k].authorization = req[r].authorization
        /\ calls[r][k].method = req[r].method
        /\ calls[r][k].path = req[r].path
        /\ calls[r][k].query = UpstreamQuery(req[r].method, req[r].query)
  /\ \A r, s \in Slots :
        (req[r] = req[s] /\ pc[r] = pc[s] /\ outcome[r] = outcome[s]) =>
          /\ resp[r] = resp[s]
          /\ calls[r] = calls[s]
          /\ logged[r] = logged[s]

C10_Witness ==
  \E r, s \in Slots :
    /\ req[r].authorization = "Bot t1" /\ req[s].authorization = "Bot t2"
    /\ Done(r) /\ outcome[r].status = 429 /\ resp[r].status = 429
    /\ pc[s] = "replied" /\ outcome[s].status = 200
    /\ calls[s][1].authorization = "Bot t2"

\* ---------------------------------------------------- markdown: claims
\* an iteration of the block loop ends with this step
BlockIterationEnds == mpc \in {"block", "inline"} /\ mpc' = "block"

\* an iteration of the inline loop of the call at the top of stack' ends
\* with this step (the call goes on, or a call it made has returned)
InlineIterationEnds ==
  stack' # << >> /\ Len(stack') <= Len(stack) /\ stack' # stack

\* A bound on the steps parseDiscordMarkdown still takes: two per character
\* an inline call has not consumed and one for its return; for a text still
\* to be parsed one more for the call; for a line still to be read two more
\* for the head and the end of its iteration.
RECURSIVE LinesCost(_, _)
LinesCost(ls, from) ==
  IF from >= Len(ls) THEN 0
  ELSE 2 * Len(ls[from + 1]) + 4 + LinesCost(ls, from + 1)

RECURSIVE TextsCost(_)
TextsCost(texts) ==
  IF texts = << >> THEN 0 ELSE 2 * Len(Head(texts)) + 2 + TextsCost(Tail(texts))

RECURSIVE FramesCost(_)
FramesCost(frames) ==
  IF frames = << >> THEN 0
  ELSE 2 * (Len(Head(frames).text) - Head(frames).pos - Head(frames).len) + 1
         + FramesCost(Tail(frames))

Variant ==
  CASE mpc = "start" -> 6 * Len(content) + 6
    [] mpc = "block" -> LinesCost(lines, i) + 1
    [] mpc = "inline" ->
         LinesCost(lines, block.next) + TextsCost(block.todo) + FramesCost(stack) + 2
    [] OTHER -> 0

Priority ==
  <<"emoji", "bold", "underline", "italic", "strikethrough", "code", "spoiler",
    "user", "role", "channel", "link">>

\* the pattern of a kind matches at the start of remaining
Matches(kind, remaining) ==
  CASE kind = "emoji" -> emojiMatch(remaining).ok
    [] kind = "bold" -> boldMatch(remaining).ok
    [] kind = "underline" -> underlineMatch(remaining).ok
    [] kind = "italic" -> italicMatch(remaining).ok
    [] kind = "strikethrough" -> strikethroughMatch(remaining).ok
    [] kind = "code" -> codeMatch(remaining).ok
    [] kind = "spoiler" -> spoilerMatch(remaining).ok
    [] kind = "user" -> userMention(remaining).ok
    [] kind = "role" -> roleMention(remaining).ok
    [] kind = "channel" -> channelMention(remaining).ok
    [] kind = "link" -> linkMatch(remaining).ok

\* the first kind of Priority that matches, "text" when none does
FirstMatch(remaining) ==
  LET hits == {k \in 1..Len(Priority) : Matches(Priority[k], remaining)}
  IN  IF hits = {} THEN "text"
      ELSE Priority[CHOOSE k \in hits : \A j \in hits : k <= j]

\* the kind of a segment
KindOf(node) == IF node.type = "mention" THEN node.kind ELSE node.type

\* the innermost inline call is at the head of an iteration of its loop and
\* this step runs it
InlineIteration ==
  /\ mpc = "inline"
  /\ stack # << >>
  /\ stack[Len(stack)].wrap = ""
  /\ stack[Len(stack)].pos < Len(stack[Len(stack)].text)
  /\ stack' # stack

\* the text the iteration looks at
Remaining == Drop(stack[Len(stack)].text, stack[Len(stack)].pos)

\* the whole parse of a one-line message that is one paragraph
OneParagraph(segments) ==
  << [type |-> "paragraph", children |-> InlineFragment(segments)] >>

Text(value) == [type |-> "text", value |-> value]

\* C11: at every cursor position of the inline pass the kind taken is the
\* first of emoji, bold, underline, italic, strikethrough, code, spoiler,
\* user, role, channel, link whose pattern matches there; a kind that wraps
\* starts a call on its capture, any other pushes its node and takes its
\* match; when no pattern matches exactly one character is pushed as text and
\* the cursor advances by one.  __x__ is an underline and <@&5> a role mention.
C11_FirstMatchInOrder ==
  /\ [][InlineIteration =>
          LET top == Len(stack)
              kind == FirstMatch(Remaining)
          IN  IF kind \in Wrappers
              THEN /\ Len(stack') = top + 1
                   /\ stack'[top].wrap = kind
              ELSE /\ Len(stack') = top
                   /\ stack'[top].segments # stack[top].segments
                   /\ KindOf(stack'[top].segments[Len(stack'[top].segments)]) = kind
                   /\ kind = "text" =>
                        /\ stack'[top].pos = stack[top].pos + 1
                        /\ stack'[top].segments =
                             Append(stack[top].segments, Text(Remaining[1]))]_vars
  /\ [](mpc = "returned" /\ content = <<"_", "_", "x", "_", "_">> =>
          result = OneParagraph(<< [type |-> "underline",
                                    children |-> <<Text("x")>>] >>))
  /\ [](mpc = "returned" /\ content = <<"<", "@", "&", "5", ">">> =>
          result = OneParagraph(<< [type |-> "mention", kind |-> "role",
                                    id |-> <<"5">>] >>))

\* __x__ has been parsed, and it is an underline
C11_Witness ==
  /\ mpc = "returned"
  /\ content = <<"_", "_", "x", "_", "_">>
  /\ result = OneParagraph(<< [type |-> "underline", children |-> <<Text("x")>>] >>)

\* the first test of the block loop that a line passes
BlockKind(line) ==
  IF StartsWith(Trim(line), <<Backtick, Backtick, Backtick>>) THEN "codeblock"
  ELSE IF headerMatch(line).ok THEN "heading"
  ELSE IF StartsWith(line, <<">", " ">>) THEN "blockquote"
  ELSE IF listMatch(line).ok THEN "listitem"
  ELSE IF Trim(line) = << >> THEN "blank"
  ELSE "paragraph"

\* the block loop is at the head of an iteration and this step runs it
BlockIteration ==
  /\ mpc = "block"
  /\ i < Len(lines)
  /\ <<mpc, i, result, block>>' # <<mpc, i, result, block>>

\* C12: the line at the block cursor is classified by the first test it
\* passes in the order code fence, heading, blockquote, list item, blank,
\* paragraph; each iteration pushes exactly one node, of that kind, and moves
\* the cursor forward over the lines of the node (one line, the lines of the
\* quote, or the fence with its content and its closing line), nodes are
\* pushed at no other step and never changed, and the parser returns with the
\* cursor past the last line: every line belongs to exactly one node.
C12_BlockOrderOneNodePerLine ==
  /\ [][BlockIteration =>
          LET kind == BlockKind(lines[i + 1])
          IN  IF kind \in {"codeblock", "blank"}
              THEN mpc' = "block" /\ result' # result
              ELSE mpc' = "inline" /\ block'.type = kind /\ result' = result /\ i' = i]_vars
  /\ [][BlockIterationEnds =>
          /\ Len(result') = Len(result) + 1
          /\ SubSeq(result', 1, Len(result)) = result
          /\ LET node == result'[Len(result')]
             IN  /\ node.type = BlockKind(lines[i + 1])
                 /\ CASE node.type = "codeblock" ->
                           /\ \A j \in (i + 2)..(i' - 1) :
                                j <= Len(lines) /\ BlockKind(lines[j]) # "codeblock"
                           /\ \/ i' = Len(lines) + 1
                              \/ i' <= Len(lines) /\ BlockKind(lines[i']) = "codeblock"
                      [] node.type = "blockquote" ->
                           /\ i' = i + Len(node.lines)
                           /\ \A j \in (i + 1)..i' : BlockKind(lines[j]) = "blockquote"
                      [] OTHER -> i' = i + 1]_vars
  /\ [][result' # result => BlockIterationEnds]_vars
  /\ [](mpc = "returned" => i >= Len(lines))

\* the six lines "# > a", ">a", "> - a", "-  ", " ", "#a" have been parsed:
\* one node each, of the kind of the first test passed
C12_Witness ==
  /\ mpc = "returned"
  /\ Len(lines) = 6
  /\ [k \in 1..Len(result) |-> result[k].type] =
       <<"heading", "paragraph", "blockquote", "listitem", "blank", "paragraph">>

\* the lines are an opening fence with a tag, content lines, a closing fence
TaggedFencedBlock ==
  /\ Len(lines) >= 2
  /\ StartsWith(lines[1], Fence)
  /\ Drop(lines[1], 3) # << >>
  /\ \A k \in 4..Len(lines[1]) : lines[1][k] \notin Whitespace \cup {Backtick}
  /\ lines[Len(lines)] = Fence
  /\ \A j \in 2..(Len(lines) - 1) : BlockKind(lines[j]) # "codeblock"

\* C13: a message that is an opening fence with a tag, content lines and a
\* closing fence parses to exactly one code block whose language is the tag
\* and whose value is the content lines joined by newlines, unchanged.
C13_FencedBlockVerbatim ==
  mpc = "returned" /\ TaggedFencedBlock =>
    result = << [type |-> "codeblock",
                 language |-> Drop(lines[1], 3),
                 value |-> JoinLines(SubSeq(lines, 2, Len(lines) - 1))] >>

\* the lines of ls that are not empty, in order
NonEmptyLines(ls) == SelectSeq(ls, LAMBDA l : l # << >>)

\* the block cursor is at a fence line that no fence line follows, and this
\* step runs the iteration
UnterminatedFence ==
  /\ BlockIteration
  /\ BlockKind(lines[i + 1]) = "codeblock"
  /\ \A j \in (i + 2)..Len(lines) : BlockKind(lines[j]) # "codeblock"

C15_LanguageHasNoSpace ==
  \A k \in 1..Len(result) :
    result[k].type = "codeblock" =>
      \A j \in 1..Len(result[k].language) : result[k].language[j] # " "

\* what parseInlineMarkdown(text) returns, as a function of text
RECURSIVE InlineSegments(_)
InlineSegments(text) ==
  IF text = << >> THEN << >>
  ELSE LET t == InlineToken(text)
       IN  << IF t.kind \in Wrappers
              THEN [type |-> t.kind, children |-> InlineSegments(t.inner)]
              ELSE t.node >>
           \o InlineSegments(Drop(text, t.len))

ParseInline(text) ==
  IF text = << >> THEN InlineNull ELSE InlineFragment(InlineSegments(text))

StartsQuote(line) == StartsWith(line, <<">", " ">>)

\* the number of consecutive lines of ls after the first from that start
\* with "> "
QuoteRun(ls, from) ==
  LET runs == {n \in 0..(Len(ls) - from) :
                 \A k \in 1..n : StartsQuote(ls[from + k])}
  IN  CHOOSE n \in runs : \A m \in runs : m <= n

\* the lines at which a maximal run of lines starting with "> " begins
QuoteRunStarts(ls) ==
  {k \in 1..Len(ls) : StartsQuote(ls[k]) /\ (k = 1 \/ ~StartsQuote(ls[k - 1]))}

\* C16 as stated: every maximal run of consecutive lines that start with "> "
\* gives exactly one blockquote node, with one line per line of the run.
C16_EveryQuoteRunOneBlockquote ==
  mpc = "returned" =>
    \E at \in [QuoteRunStarts(lines) -> 1..Len(result)] :
      /\ \A k \in QuoteRunStarts(lines) :
           /\ result[at[k]].type = "blockquote"
           /\ Len(result[at[k]].lines) = QuoteRun(lines, k - 1)
      /\ \A j, k \in QuoteRunStarts(lines) : j < k => at[j] < at[k]
      /\ \A n \in 1..Len(result) :
           result[n].type = "blockquote" => \E k \in QuoteRunStarts(lines) : at[k] = n

\* C16, amended: every maximal run of consecutive lines that start with "> "
\* and that the block cursor reaches (the lines outside fenced code blocks)
\* gives exactly one blockquote node: a line starting with "> " at the cursor
\* is the first of its run, the iteration pushes one blockquote holding, for
\* every line of the run in order, the inline parse of the line without its
\* two-character prefix, and it leaves the cursor at the first line that does
\* not start with "> "; a run inside a fenced code block gives no blockquote.
C16_QuoteRunOutsideFence ==
  /\ [](mpc = "block" /\ 0 < i /\ i < Len(lines) /\ StartsQuote(lines[i + 1]) =>
          ~StartsQuote(lines[i]))
  /\ [][BlockIteration /\ StartsQuote(lines[i + 1]) =>
          /\ block'.type = "blockquote"
          /\ block'.todo =
               [k \in 1..QuoteRun(lines, i) |-> SubSeq(lines[i + k], 3, Len(lines[i + k]))]
          /\ block'.done = << >>]_vars
  /\ [][BlockIterationEnds /\ block.type = "blockquote" =>
          /\ StartsQuote(lines[i + 1])
          /\ result' = Append(result,
               [type |-> "blockquote",
                lines |-> [k \in 1..QuoteRun(lines, i) |->
                             ParseInline(SubSeq(lines[i + k], 3, Len(lines[i + k])))]])
          /\ i' = i + QuoteRun(lines, i)
          /\ i' < Len(lines) => ~StartsQuote(lines[i' + 1])]_vars
  /\ [][BlockIterationEnds /\ result'[Len(result')].type = "blockquote" =>
          block.type = "blockquote"]_vars

\* "> line1", "> line2", "plain" have been parsed: one blockquote of two
\* lines, then one paragraph
C16_Witness ==
  /\ mpc = "returned"
  /\ lines = << <<">", " ", "l", "i", "n", "e", "1">>,
                <<">", " ", "l", "i", "n", "e", "2">>,
                <<"p", "l", "a", "i", "n">> >>
  /\ result = << [type |-> "blockquote",
                  lines |-> << ParseInline(<<"l", "i", "n", "e", "1">>),
                               ParseInline(<<"l", "i", "n", "e", "2">>) >>],
                 [type |-> "paragraph",
                  children |-> ParseInline(<<"p", "l", "a", "i", "n">>)] >>

Mention(kind, id) == [type |-> "mention", kind |-> kind, id |-> id]

\* the mention token at the start of remaining, read character by character:
\* "<", "@" or "#", for "@" an optional "!" or "&", digits, ">"
MentionAt(remaining) ==
  LET flag == IF Len(remaining) >= 3 /\ remaining[2] = "@" /\ remaining[3] \in {"!", "&"}
              THEN remaining[3] ELSE ""
      from == IF flag = "" THEN 2 ELSE 3
      d == RunLength(Drop(remaining, from), Digits)
  IN  IF /\ Len(remaining) >= from + d + 1
         /\ remaining[1] = "<"
         /\ remaining[2] \in {"@", "#"}
         /\ d >= 1
         /\ remaining[from + d + 1] = ">"
      THEN [ok |-> TRUE,
            kind |-> IF remaining[2] = "#" THEN "channel"
                     ELSE IF flag = "&" THEN "role" ELSE "user",
            id |-> SubSeq(remaining, from + 1, from + d),
            len |-> from + d + 1]
      ELSE [ok |-> FALSE, kind |-> "", id |-> << >>, len |-> 0]

\* C17: at a token <@id> or <@!id> the inline pass pushes a mention of kind
\* user that carries the digits of the id and nothing else, <@&id> gives kind
\* role and <#id> kind channel; the node is a function of the token alone (the
\* parser is given the content and no lookup table), and a mention node is
\* pushed for such a token only.  <@123> and <@!123> both parse to the user
\* mention with id 123.
C17_MentionCarriesRawId ==
  /\ [][InlineIteration /\ MentionAt(Remaining).ok =>
          LET top == Len(stack)
              m == MentionAt(Remaining)
          IN  /\ Len(stack') = top
              /\ stack'[top].segments = Append(stack[top].segments, Mention(m.kind, m.id))
              /\ stack'[top].pos = stack[top].pos + m.len]_vars
  /\ [][InlineIteration /\ ~MentionAt(Remaining).ok /\ Len(stack') = Len(stack) =>
          stack'[Len(stack)].segments[Len(stack'[Len(stack)].segments)].type # "mention"]_vars
  /\ [](mpc = "returned" /\ content \in {<<"<", "@", "1", "2", "3", ">">>,
                                          <<"<", "@", "!", "1", "2", "3", ">">>} =>
          result = OneParagraph(<<Mention("user", <<"1", "2", "3">>)>>))

\* <@123> has been parsed to the user mention carrying 123
C17_Witness ==
  /\ mpc = "returned"
  /\ content = <<"<", "@", "1", "2", "3", ">">>
  /\ result = OneParagraph(<<Mention("user", <<"1", "2", "3">>)>>)

\* the characters of the text nodes, in order
TextOf(nodes) == [k \in 1..Len(nodes) |-> nodes[k].value]

\* characters that start or end no token and no block
PlainChars == Letters \cup Digits \cup {" "}

\* the content is **t** for a non-empty t of plain characters
PlainBold ==
  /\ Len(content) >= 5
  /\ SubSeq(content, 1, 2) = <<"*", "*">>
  /\ SubSeq(content, Len(content) - 1, Len(content)) = <<"*", "*">>
  /\ \A k \in 3..(Len(content) - 2) : content[k] \in PlainChars

ItalicTaken ==
  /\ InlineIteration
  /\ Len(stack') = Len(stack) + 1
  /\ stack'[Len(stack)].wrap = "italic"

\* C19: an italic span opens with one * or one _, holds at least one
\* character and neither * nor _, and closes with the character it opened
\* with; *a* _b_ parses to one paragraph of an italic a, a text " " and an
\* italic b, and is no list item.
C19_ItalicSameDelimiter ==
  /\ [][ItalicTaken =>
          LET top == Len(stack)
              len == stack'[top].len
              inner == stack'[top + 1].text
          IN  /\ len = Len(inner) + 2
              /\ len >= 3
              /\ Remaining[1] \in {"*", "_"}
              /\ Remaining[len] = Remaining[1]
              /\ inner = SubSeq(Remaining, 2, len - 1)
              /\ \A k \in 1..Len(inner) : inner[k] \notin {"*", "_"}]_vars
  /\ [](mpc = "returned" /\ content = <<"*", "a", "*", " ", "_", "b", "_">> =>
          result = OneParagraph(<< [type |-> "italic", children |-> <<Text("a")>>],
                                   Text(" "),
                                   [type |-> "italic", children |-> <<Text("b")>>] >>))
  /\ [](mpc = "returned" /\ content = <<"*", "a", "_", " ", "b">> =>
          result = OneParagraph(<<Text("*"), Text("a"), Text("_"), Text(" "), Text("b")>>))

\* *a* _b_ has been parsed: italic a, text " ", italic b
C19_Witness ==
  /\ mpc = "returned"
  /\ content = <<"*", "a", "*", " ", "_", "b", "_">>
  /\ Len(result) = 1
  /\ result[1].type = "paragraph"
  /\ [k \in 1..Len(result[1].children.nodes) |-> result[1].children.nodes[k].type] =
       <<"italic", "text", "italic">>

\* the kinds that are a pair of delimiters around a capture
Pairs == Wrappers \cup {"code"}

\* the delimiter of a kind, for the text it is matched at
DelimiterOf(kind, remaining) ==
  CASE kind = "bold" -> <<"*", "*">>
    [] kind = "underline" -> <<"_", "_">>
    [] kind = "italic" -> <<remaining[1]>>
    [] kind = "strikethrough" -> <<"~", "~">>
    [] kind = "code" -> <<Backtick>>
    [] kind = "spoiler" -> <<"|", "|">>

\* the kind this iteration takes and what it captures
TakenKind ==
  IF Len(stack') > Len(stack) THEN stack'[Len(stack)].wrap
  ELSE KindOf(stack'[Len(stack)].segments[Len(stack'[Len(stack)].segments)])

Captured ==
  IF Len(stack') > Len(stack) THEN stack'[Len(stack')].text
  ELSE stack'[Len(stack)].segments[Len(stack'[Len(stack)].segments)].value

TakenLength ==
  IF Len(stack') > Len(stack) THEN stack'[Len(stack)].len
  ELSE stack'[Len(stack)].pos - stack[Len(stack)].pos

\* C20: whenever the inline pass takes a bold, underline, italic,
\* strikethrough, inline code or spoiler, the text at the cursor is the
\* delimiter, a capture of at least one character in which the delimiter
\* character does not occur, and the delimiter again: the pair is closed at
\* the first place after the opening where the delimiter character occurs.
\* **a*b** gives no bold at all, and **a** **b** gives two bolds around a
\* text " ".
C20_NearestCloseNoDelimiterInside ==
  /\ [][InlineIteration /\ TakenKind \in Pairs =>
          LET d == DelimiterOf(TakenKind, Remaining)
              n == Len(d)
              c == Len(Captured)
          IN  /\ c >= 1
              /\ TakenLength = 2 * n + c
              /\ TakenLength <= Len(Remaining)
              /\ SubSeq(Remaining, 1, n) = d
              /\ SubSeq(Remaining, n + 1, n + c) = Captured
              /\ SubSeq(Remaining, n + c + 1, 2 * n + c) = d
              /\ \A k \in 1..c : Captured[k] # d[1]]_vars
  /\ [](mpc = "returned" /\ content = <<"*", "*", "a", "*", "b", "*", "*">> =>
          result = OneParagraph(<< Text("*"),
                                   [type |-> "italic", children |-> <<Text("a")>>],
                                   Text("b"), Text("*"), Text("*") >>))
  /\ [](mpc = "returned"
          /\ content = <<"*", "*", "a", "*", "*", " ", "*", "*", "b", "*", "*">> =>
          result = OneParagraph(<< [type |-> "bold", children |-> <<Text("a")>>],
                                   Text(" "),
                                   [type |-> "bold", children |-> <<Text("b")>>] >>))

\* **a** **b** has been parsed: two bold nodes, not one
C20_Witness ==
  /\ mpc = "returned"
  /\ content = <<"*", "*", "a", "*", "*", " ", "*", "*", "b", "*", "*">>
  /\ Len(result) = 1
  /\ result[1].type = "paragraph"
  /\ [k \in 1..Len(result[1].children.nodes) |-> result[1].children.nodes[k].type] =
       <<"bold", "text", "bold">>

\* a call made for a capture returns with this step
WrappedReturn ==
  /\ mpc = "inline"
  /\ Len(stack) >= 2
  /\ Len(stack') = Len(stack) - 1

PlainParagraph ==
  /\ mpc = "returned"
  /\ Len(lines) = 1
  /\ Len(result) = 1
  /\ result[1].type = "paragraph"
  /\ \A k \in 1..Len(result[1].children.nodes) :
       result[1].children.nodes[k].type = "text"

\* C22 as stated: for a one-line paragraph in which no token matches, the
\* values of the text nodes, concatenated, are the input.
C22_PlainTextIsInput ==
  PlainParagraph => TextOf(result[1].children.nodes) = content

\* C22, amended: for a one-line paragraph in which no token matches, the
\* values of the text nodes, concatenated, are the input after its HTML
\* entities are decoded: every character of the decoded line, delimiter
\* characters included, is one text node at its position.
C22_PlainTextIsDecodedInput ==
  PlainParagraph =>
    /\ lines[1] = decodeHtmlEntities(content)
    /\ Len(result[1].children.nodes) = Len(lines[1])
    /\ \A k \in 1..Len(lines[1]) : result[1].children.nodes[k] = Text(lines[1][k])

\* a** has been parsed: the stray ** is the text nodes * and *
C22_Witness ==
  /\ PlainParagraph
  /\ content = <<"a", "*", "*">>
  /\ result = OneParagraph(<<Text("a"), Text("*"), Text("*")>>)

Blank == [type |-> "blank"]

BlankNodes == {k \in 1..Len(result) : result[k].type = "blank"}

\* the empty lines of ls
EmptyLines(ls) == {k \in 1..Len(ls) : ls[k] = << >>}

C29_SuccessWithoutJsonIs500 ==
  \A r \in Slots :
    ( /\ Done(r)
      /\ calls[r] # << >>
      /\ ~outcome[r].failed
      /\ outcome[r].status \in 200..299
      /\ outcome[r].status # 204
      /\ outcome[r].body \in {TextEmpty, TextHtml} ) =>
        /\ resp[r] = [status |-> 500, body |-> TextErrInternal]
        /\ logged[r]
        /\ Len(calls[r]) = 1

\* a 201 with an empty body has been answered with 500
C29_Witness ==
  /\ Done(1)
  /\ outcome[1] = [failed |-> FALSE, status |-> 201, body |-> TextEmpty]
  /\ req[1].method = "POST"
  /\ resp[1].status = 500

\* ------------------------------------------------- DiscordClient: claims
\* nothing of a validated token is held
Cleared == localStorage = Null /\ authToken = Null /\ botUser = NoUser

\* a validation, of the stored token or of a submitted one, fails in this step
ValidationFails ==
  \E t \in BagToSet(inflight), answer \in AuthOutcomes \ {"bot"} :
    authenticateSettles(t, answer) \/ handleLoginSettles(t, answer)

\* a submitted token is validated in this step
ValidationOfSubmitted(token) ==
  \E t \in Awaited("handleLogin") :
    t.token = token /\ handleLoginSettles(t, "bot")

\* C24: whenever the validation of the stored token (authenticate) or of a
\* submitted token (handleLogin) fails, because the request is rejected or the
\* account is no bot, the stored token is removed, authToken and botUser are
\* null, authError is set and the login screen is shown, and this stays so
\* while the error is shown; local storage is written a token only in the
\* step in which the validation of that token succeeded.
C24_FailedValidationClearsToken ==
  /\ [][ValidationFails => (authError # Null /\ Cleared /\ LoginScreen)']_vars
  /\ [](authError # Null => Cleared /\ LoginScreen)
  /\ [][localStorage' # localStorage /\ localStorage' # Null
          => ValidationOfSubmitted(localStorage')]_vars

\* the validation of a token of an account that is no bot has failed, the
\* error is shown and nothing is held
C24_Witness ==
  /\ mounted
  /\ authError = "Not a bot token"
  /\ Cleared
  /\ LoginScreen
  /\ inflight = EmptyBag

\* a send succeeds, or fails, in this step
SendSucceeds ==
  \E t \in Awaited("handleSendMessage") : handleSendMessageSettles(t, TRUE)
SendFails ==
  \E t \in Awaited("handleSendMessage") : handleSendMessageSettles(t, FALSE)

\* the message-list fetches in flight
Fetches == BagCardinality([t \in Awaited("loadMessages") |-> inflight[t]])

\* C25: a send that succeeds schedules a refresh for the channel it was sent
\* to, whatever else is in flight; every refresh scheduled eventually runs, and
\* when it runs it issues a message-list fetch for that channel; a send that
\* fails schedules nothing, issues no fetch and leaves the composed text.
C25_SendThenRefresh ==
  /\ [][\A t \in Awaited("handleSendMessage") :
          handleSendMessageSettles(t, TRUE)
            => timers' = Append(timers, loadMessages(t.token, t.channel))]_vars
  /\ \A n \in 1..MaxSends :
       (Len(timers) + fired >= n) ~> (fired >= n)
  /\ [][fired' # fired
          => /\ fired' = fired + 1
             /\ timers # << >>
             /\ Head(timers).kind = "loadMessages"
             /\ Head(timers).channel # Null
             /\ inflight' = inflight (+) SetToBag({Head(timers)})]_vars
  /\ [][SendFails => /\ messageInput' = messageInput
                      /\ timers' = timers
                      /\ Fetches' = Fetches]_vars

\* the refresh of a sent message is in flight while the list of another
\* channel is being fetched
C25_Witness ==
  /\ fired = 1
  /\ timers = << >>
  /\ \E t \in Awaited("loadMessages") : t.channel # selectedChannelId
  /\ \E t \in Awaited("loadMessages") : t.channel = selectedChannelId

\* C26: a click on a reaction toggles the bot's reaction: once the request of
\* the click has succeeded the bot has reacted if the reaction clicked on was
\* not its own (reaction.me false) and has not reacted if it was (reaction.me
\* true).
C26_ReactionClickToggles ==
  [][\A t \in Awaited("handleAddReaction") :
       handleAddReactionSettles(t, TRUE)
         => reacted'[t.channel] = ~t.me]_vars

\* nothing is awaited, no timer is pending and the effects have run
Quiet == Committed /\ inflight = EmptyBag /\ timers = << >>

\* C27: whenever no message fetch is in flight (here: nothing at all is
\* awaited or scheduled) the message list is empty or holds the messages of
\* the channel that is selected.
C27_MessagesOfSelectedChannel ==
  Quiet => \/ messages = << >>
           \/ /\ selectedChannelId # Null
              /\ \A k \in 1..Len(messages) :
                   messages[k].channel_id = selectedChannelId

\* the client holds no guild, channel, role, DM channel, message or selection
NoSessionData ==
  /\ guilds = << >>
  /\ channels = << >>
  /\ roles = << >>
  /\ dmChannels = << >>
  /\ messages = << >>
  /\ selectedGuildId = Null
  /\ selectedChannelId = Null

\* C28: handleLogout removes the stored token, clears authToken and botUser
\* and leaves no guild, channel, role, DM channel, message or selection; and
\* while nobody is logged in no such data comes back, also not from a request
\* that was issued before the logout.
C28_LogoutLeavesNothing ==
  /\ [][HandleLogout => (Cleared /\ NoSessionData)']_vars
  /\ [][authToken = Null /\ authToken' = Null /\ NoSessionData
          => NoSessionData']_vars

\* the loads that share isLoading and are still awaited
Loads ==
  Awaited("loadGuilds") \cup Awaited("loadGuildData") \cup Awaited("loadMessages")

\* C30: isLoading is true while at least one of loadGuilds, loadGuildData and
\* loadMessages is awaited and false when none is.
C30_LoadingWhileAnyLoad == isLoading <=> Loads # {}

====
